---------------------------- MODULE Spec2Model ----------------------------
(***************************************************************************)
(* A model of the Common Crawl pipeline: the batcher (src/bin/batcher.rs), *)
(* the worker (src/bin/worker.rs), the saver (src/bin/saver.rs) and the    *)
(* shared helpers of src/commoncrawl.rs.                                   *)
(*                                                                         *)
(* Strings whose characters the code inspects (index lines, language       *)
(* lists) are sequences of one-character strings.  usize values that the   *)
(* code does arithmetic on (offsets, lengths) live in 0..UsizeMax, a       *)
(* scaled-down usize with the same wrap-around behaviour.                  *)
(***************************************************************************)
EXTENDS Integers, Sequences, FiniteSets, TLC

VARIABLES
    \* ---- one call of a pure function (parse_cluster_idx, download_and_unzip)
    callIn,         \* the arguments of the call
    callOut,        \* its result; kind = "pending" before the call
    \* ---- the build
    overflowChecks, \* TRUE: arithmetic overflow panics (debug); FALSE: wraps (release)
    \* ---- the batcher (bin/batcher.rs)
    bpc,            \* where the batcher is: "off", "start", "obtain_index",
                    \* "store_index" (awaiting the body of the index),
                    \* "process_index" (about to request a shard), "publishing"
                    \* (in the loop over the batches of a shard), "done" (Ok),
                    \* "failed" (Err, exit 1), "panicked", "usage_error"
    chunksArg,      \* the --chunks argument: [given, val]
    maxChunks,      \* max_chunks_to_process
    indexFile,      \* the local cluster index file: [exists, lines, utf8]
    indexRemote,    \* the lines of the cluster index the server holds
    indexGets,      \* the downloads of the cluster index: [url, resp, result]
    idx,            \* the parsed cluster index, a sequence of ClusterIdxEntry
    cursor,         \* how many entries of idx the for loop has taken
    numProcessed,   \* num_cdx_chunks_processed
    fetchLog,       \* the range requests sent so far, in order
    shardResp,      \* the answer to the last range request (status 0: none yet)
    shardLog,       \* the lines of every shard processed so far, in order
    pendingBatches, \* the batches of the shard in hand that are not published yet
    lineBudget,     \* how many more lines the remote shards hold
    \* ---- the worker (bin/worker.rs)
    wpc,            \* where the worker is: "off", "consume" (awaiting the next
                    \* delivery), "entries" (in the for loop over a batch),
                    \* "records" (in the loop over the records of a range),
                    \* "ack", "done" (Ok), "failed" (Err, exit 1), "panicked"
    wDelivery,      \* the position in batchesQueue of the delivery being handled
    wEntry,         \* how many entries of its batch the for loop has finished
    wRecord,        \* how many records of its range the loop has finished
    entryLog,       \* every call of process_index_entry: [delivery, entry,
                    \* records (the capture records it read), result
                    \* ("pending" until the call returns)]
    contentLog,     \* every extracted content: [uri, len, encoded, publish
                    \* (what the publish call returned, or "none"), result]
    wRecvErrors,    \* how many times the worker's consumer yielded an error
    recordBudget,   \* how many more capture records the remote shards hold
    debugLog,       \* whether the DEBUG level of tracing is enabled
    tokenizerFails, \* whether Tokenizer::encode may return an error
    \* ---- the saver (bin/saver.rs)
    spc,            \* where the saver is: "off", "start", "consume", "entries",
                    \* "ack", "done" (Ok), "failed" (Err, exit 1)
    sDelivery,      \* the position in storeQueue of the delivery being handled
    sEntry,         \* how many documents of its message the for loop has written
    bucketExists,   \* whether the object store holds the bucket
    objects,        \* the objects of the bucket, a set of [key, body, metadata]
    putLog,         \* every put_object call: [delivery, entry, key, ok]
    ackLog,         \* every acknowledgement sent: [delivery, kind, requeue, ok]
    storeCalls,     \* the bucket calls of the start: [op, ok, exists]
    sRecvErrors,    \* how many times the saver's consumer yielded an error
    \* ---- several workers on one batches queue
    pool,           \* the instances: a sequence of [pc, delivery, entry, record]
    poolLog,        \* for each delivery: [received, acked (the instances that
                    \* did so, in order), entries (how often each was processed)]
    \* ---- the broker
    batchesQueue,   \* the batches queue: a sequence of [payload, state]
    storeQueue      \* the store queue: a sequence of [payload, state]

unitVars == <<callIn, callOut>>
batcherVars == <<bpc, chunksArg, maxChunks, indexFile, indexRemote, indexGets, idx,
                 cursor, numProcessed, fetchLog, shardResp, shardLog, pendingBatches,
                 lineBudget>>
workerVars == <<wpc, wDelivery, wEntry, wRecord, entryLog, contentLog, wRecvErrors, recordBudget,
                debugLog, tokenizerFails>>
saverVars == <<spc, sDelivery, sEntry, bucketExists, objects, putLog, ackLog,
               storeCalls, sRecvErrors>>
queueVars == <<batchesQueue, storeQueue>>
poolVars == <<pool, poolLog>>
vars == <<callIn, callOut, overflowChecks, bpc, chunksArg, maxChunks, indexFile,
          indexRemote, indexGets, idx, shardResp, cursor,
          numProcessed, fetchLog, shardLog, pendingBatches, lineBudget, wpc, wDelivery, wEntry,
          wRecord, entryLog, contentLog, wRecvErrors, recordBudget, debugLog, tokenizerFails,
          spc, sDelivery, sEntry, bucketExists, objects, putLog, ackLog,
          storeCalls, sRecvErrors,
          pool, poolLog, batchesQueue, storeQueue>>

-----------------------------------------------------------------------------
(* Bounds of the model *)

\* usize::MAX of the scaled usize in which offsets and lengths are drawn
UsizeMax == 7
\* the largest number of whitespace-separated fields of a cluster.idx line
MaxFields == 6
\* BATCH_SIZE of pipeline::rabbitmq, the most entries of one batch
BATCH_SIZE == 2
\* the most lines of a cluster index
MaxIdx == 2
\* the largest --chunks value tried besides the limits of its range
MaxChunksArg == 2
\* the most lines of one shard, and of all shards of a run together
MaxShardLines == 3
\* the most deliveries a queue holds at the start
MaxDeliveries == 2
\* the most capture records of one WARC range, and of all ranges of a run
MaxRecords == 2
\* the most documents of one store-queue message
MaxDocs == 2
\* the most errors a consumer yields in one run
MaxRecvErrors == 1
\* the number of worker instances on one batches queue
NumWorkers == 2

-----------------------------------------------------------------------------
(* Generic helpers *)

Min(a, b) == IF a <= b THEN a ELSE b

RECURSIVE SeqsUpTo(_, _)
\* all sequences over S of length 0..n
SeqsUpTo(S, n) ==
    IF n = 0 THEN {<<>>}
    ELSE LET shorter == SeqsUpTo(S, n - 1)
         IN  shorter \cup {Append(s, x) : s \in {t \in shorter : Len(t) = n - 1}, x \in S}

RECURSIVE Flatten(_)
\* the concatenation of a sequence of sequences
Flatten(ss) == IF ss = <<>> THEN <<>> ELSE Head(ss) \o Flatten(Tail(ss))

-----------------------------------------------------------------------------
(* Stages that take no part in a specification *)

\* no range request was answered yet
NoResponse ==
    [sendOk |-> FALSE, status |-> 0, bodyOk |-> FALSE, gzipOk |-> FALSE,
     utf8Ok |-> FALSE, body |-> <<>>]

BatcherOff ==
    /\ bpc = "off"
    /\ chunksArg = [given |-> FALSE, val |-> 0]
    /\ maxChunks = 0
    /\ indexFile = [exists |-> FALSE, lines |-> <<>>, utf8 |-> TRUE]
    /\ indexRemote = <<>>
    /\ indexGets = <<>>
    /\ idx = <<>>
    /\ cursor = 0
    /\ numProcessed = 0
    /\ fetchLog = <<>>
    /\ shardResp = NoResponse
    /\ shardLog = <<>>
    /\ pendingBatches = <<>>
    /\ lineBudget = 0

WorkerOff ==
    /\ wpc = "off"
    /\ wDelivery = 0
    /\ wEntry = 0
    /\ wRecord = 0
    /\ entryLog = <<>>
    /\ contentLog = <<>>
    /\ wRecvErrors = 0
    /\ recordBudget = 0
    /\ debugLog = FALSE
    /\ tokenizerFails = FALSE

SaverOff ==
    /\ spc = "off"
    /\ sDelivery = 0
    /\ sEntry = 0
    /\ bucketExists = FALSE
    /\ objects = {}
    /\ putLog = <<>>
    /\ ackLog = <<>>
    /\ storeCalls = <<>>
    /\ sRecvErrors = 0

QueuesEmpty == batchesQueue = <<>> /\ storeQueue = <<>>

PoolOff == pool = <<>> /\ poolLog = <<>>

UnitOff ==
    /\ callIn = [fn |-> "none"]
    /\ callOut = [kind |-> "none"]

-----------------------------------------------------------------------------
(* Characters and str::parse::<usize> *)

Digits == {"0", "1", "2", "3", "4", "5", "6", "7", "8", "9"}

\* char::is_whitespace, the test of str::split_whitespace: the characters
\* with the Unicode property White_Space (those without a TLA+ escape are
\* written by their code point)
WhiteSpace ==
    {"\t", "\n", "U+000B", "\f", "\r", " ", "U+0085", "U+00A0", "U+1680", "U+2000",
     "U+2001", "U+2002", "U+2003", "U+2004", "U+2005", "U+2006", "U+2007", "U+2008",
     "U+2009", "U+200A", "U+2028", "U+2029", "U+202F", "U+205F", "U+3000"}

IsWhitespace(c) == c \in WhiteSpace

DigitVal(c) ==
    CASE c = "0" -> 0 [] c = "1" -> 1 [] c = "2" -> 2 [] c = "3" -> 3
      [] c = "4" -> 4 [] c = "5" -> 5 [] c = "6" -> 6 [] c = "7" -> 7
      [] c = "8" -> 8 [] c = "9" -> 9

RECURSIVE DecimalValue(_, _)
\* the value of a digit string, saturating just above UsizeMax
DecimalValue(ds, acc) ==
    IF ds = <<>> THEN acc
    ELSE DecimalValue(Tail(ds), Min(acc * 10 + DigitVal(Head(ds)), UsizeMax + 1))

\* <field>.parse::<usize>(): an optional "+", then one or more digits, and the
\* value must fit a usize; anything else is Err
ParseUsize(field) ==
    LET ds == IF field # <<>> /\ Head(field) = "+" THEN Tail(field) ELSE field
    IN  IF ds # <<>> /\ (\A i \in 1..Len(ds) : ds[i] \in Digits)
                     /\ DecimalValue(ds, 0) <= UsizeMax
        THEN [ok |-> TRUE, val |-> DecimalValue(ds, 0)]
        ELSE [ok |-> FALSE, val |-> 0]

RECURSIVE SplitFrom(_, _, _)
\* str::split_whitespace: the maximal runs of non-whitespace characters
SplitFrom(line, i, cur) ==
    IF i > Len(line)
    THEN IF cur = <<>> THEN <<>> ELSE <<cur>>
    ELSE IF IsWhitespace(line[i])
         THEN IF cur = <<>> THEN SplitFrom(line, i + 1, <<>>)
              ELSE <<cur>> \o SplitFrom(line, i + 1, <<>>)
         ELSE SplitFrom(line, i + 1, Append(cur, line[i]))

SplitWhitespace(line) == SplitFrom(line, 1, <<>>)

-----------------------------------------------------------------------------
(* commoncrawl.rs: parse_cluster_idx *)

NoClusterIdxEntry(kind) ==
    [kind |-> kind, cdx_filename |-> <<>>, cdx_offset |-> 0, cdx_length |-> 0]

\* The struct's fields are evaluated in order: each `idx.next()?` returns None
\* when the line has run out of fields, and the fourth and fifth fields are
\* parsed with `.parse().unwrap()` as soon as they are read, before the sixth
\* field is looked at.
parse_cluster_idx(line) ==
    LET fields == SplitWhitespace(line)
    IN  IF Len(fields) < 1 THEN NoClusterIdxEntry("None")
        ELSE IF Len(fields) < 2 THEN NoClusterIdxEntry("None")
        ELSE IF Len(fields) < 3 THEN NoClusterIdxEntry("None")
        ELSE IF Len(fields) < 4 THEN NoClusterIdxEntry("None")
        ELSE IF ~ParseUsize(fields[4]).ok THEN NoClusterIdxEntry("Panic")
        ELSE IF Len(fields) < 5 THEN NoClusterIdxEntry("None")
        ELSE IF ~ParseUsize(fields[5]).ok THEN NoClusterIdxEntry("Panic")
        ELSE IF Len(fields) < 6 THEN NoClusterIdxEntry("None")
        ELSE [kind |-> "Some", cdx_filename |-> fields[3],
              cdx_offset |-> ParseUsize(fields[4]).val,
              cdx_length |-> ParseUsize(fields[5]).val]

\* the fields the index lines of the model are made of: a name, two numbers,
\* a number too large for a usize, and a field that starts with a digit
FieldPool == {<<"a">>, <<"7">>, <<"9", "9">>, <<"7", "x">>}

RECURSIVE JoinFields(_, _)
JoinFields(fs, sep) ==
    IF fs = <<>> THEN <<>>
    ELSE IF Len(fs) = 1 THEN Head(fs)
    ELSE Head(fs) \o sep \o JoinFields(Tail(fs), sep)

\* index lines: the fields joined by a space, or by runs of blanks and tabs
\* with leading and trailing whitespace, or by a form feed, a carriage
\* return or a no-break space (a line of str::lines holds no line feed)
ClusterLines ==
    {JoinFields(fs, <<" ">>) : fs \in SeqsUpTo(FieldPool, MaxFields)}
    \cup {<<" ">> \o JoinFields(fs, <<"\t", " ">>) \o <<"\t">> :
            fs \in SeqsUpTo({<<"a">>, <<"7">>}, MaxFields)}
    \cup {JoinFields(fs, <<sep>>) :
            fs \in SeqsUpTo({<<"a">>, <<"7">>}, MaxFields), sep \in {"\f", "\r", "U+00A0"}}

ParseInit ==
    /\ callIn \in [fn : {"parse_cluster_idx"}, line : ClusterLines]
    /\ callOut = NoClusterIdxEntry("pending")
    /\ overflowChecks = TRUE
    /\ BatcherOff
    /\ WorkerOff
    /\ SaverOff
    /\ QueuesEmpty
    /\ PoolOff

ParseClusterIdxCall ==
    /\ callIn.fn = "parse_cluster_idx"
    /\ callOut.kind = "pending"
    /\ callOut' = parse_cluster_idx(callIn.line)
    /\ UNCHANGED <<callIn, overflowChecks, batcherVars, workerVars, saverVars, queueVars,
                   poolVars>>

SpecParse == ParseInit /\ [][ParseClusterIdxCall]_vars

\* the fields of the line a finished parse_cluster_idx call was given
CallFields == SplitWhitespace(callIn.line)

\* C7: every line with fewer than six fields yields no entry and never
\* panics, whatever the fourth and fifth fields hold.
C7_FewerThanSixFieldsYieldNone ==
    (callOut.kind # "pending" /\ Len(CallFields) < 6) => callOut.kind = "None"

-----------------------------------------------------------------------------
(* commoncrawl.rs: download_and_unzip *)

\* reqwest::StatusCode::PARTIAL_CONTENT
PARTIAL_CONTENT == 206

\* what the server may answer with: 206, 200 (the whole file) or 404
HttpStatuses == {PARTIAL_CONTENT, 200, 404}

\* `offset + length - 1` in usize arithmetic: an overflow of the sum or an
\* underflow of the difference panics when the build checks overflow and
\* wraps around when it does not
RangeEnd(offset, length, checks) ==
    LET sum     == offset + length
        wrapped == sum % (UsizeMax + 1)
    IN  IF sum > UsizeMax /\ checks THEN [kind |-> "Panic", val |-> 0]
        ELSE IF wrapped = 0
             THEN IF checks THEN [kind |-> "Panic", val |-> 0]
                  ELSE [kind |-> "Ok", val |-> UsizeMax]
             ELSE [kind |-> "Ok", val |-> wrapped - 1]

NoRequest == [sent |-> FALSE, url |-> <<>>, first |-> 0, last |-> 0]

\* a variant that hands out the body of any 2xx answer
download_and_unzip_any_success(url, offset, length, resp, checks) ==
    LET end == RangeEnd(offset, length, checks)
        req == [sent |-> TRUE, url |-> url, first |-> offset, last |-> end.val]
    IN  IF end.kind = "Panic"
        THEN [kind |-> "Panic", content |-> <<>>, request |-> NoRequest]
        ELSE IF ~resp.sendOk
        THEN [kind |-> "Err", content |-> <<>>, request |-> req]
        ELSE IF resp.status \in {PARTIAL_CONTENT, 200} /\ resp.bodyOk /\ resp.gzipOk
        THEN [kind |-> "Ok", content |-> resp.body, request |-> req]
        ELSE [kind |-> "Err", content |-> <<>>, request |-> req]

\* The Range header is formatted before the request is sent (line 59); `send`
\* may fail; any status but 206 is an error; reading the body and gunzipping
\* it may fail.  resp is the server's answer to the request.
download_and_unzip(url, offset, length, resp, checks) ==
    LET end == RangeEnd(offset, length, checks)
        req == [sent |-> TRUE, url |-> url, first |-> offset, last |-> end.val]
    IN  IF end.kind = "Panic"
        THEN [kind |-> "Panic", content |-> <<>>, request |-> NoRequest]
        ELSE IF ~resp.sendOk
        THEN [kind |-> "Err", content |-> <<>>, request |-> req]
        ELSE IF resp.status = PARTIAL_CONTENT /\ resp.bodyOk /\ resp.gzipOk
        THEN [kind |-> "Ok", content |-> resp.body, request |-> req]
        ELSE [kind |-> "Err", content |-> <<>>, request |-> req]

\* the answers to one request: an unreachable server, any status, a body that
\* cannot be read or is not gzip, and a body that decompresses to `body`
Responses(bodies) ==
    [sendOk : BOOLEAN, status : HttpStatuses, bodyOk : BOOLEAN, gzipOk : BOOLEAN,
     utf8Ok : BOOLEAN, body : bodies]

\* the same answers, every part that is never read left as in the answer
\* that is in order: the first step that fails decides the outcome
ResponsesRead(bodies) ==
    LET fine == [sendOk |-> TRUE, status |-> PARTIAL_CONTENT, bodyOk |-> TRUE,
                 gzipOk |-> TRUE, utf8Ok |-> TRUE, body |-> <<>>]
    IN  {[fine EXCEPT !.sendOk = FALSE], [fine EXCEPT !.bodyOk = FALSE],
         [fine EXCEPT !.gzipOk = FALSE], [fine EXCEPT !.utf8Ok = FALSE]}
        \cup {[fine EXCEPT !.status = st] : st \in HttpStatuses \ {PARTIAL_CONTENT}}
        \cup {[fine EXCEPT !.body = b] : b \in bodies}

FetchInit ==
    /\ callIn \in [fn : {"download_and_unzip"}, url : {<<"u">>},
                   offset : 0..UsizeMax, length : 0..UsizeMax,
                   resp : Responses({<<"body">>})]
    /\ callOut = [kind |-> "pending", content |-> <<>>, request |-> NoRequest]
    /\ overflowChecks \in BOOLEAN
    /\ BatcherOff
    /\ WorkerOff
    /\ SaverOff
    /\ QueuesEmpty
    /\ PoolOff

DownloadAndUnzipCall ==
    /\ callIn.fn = "download_and_unzip"
    /\ callOut.kind = "pending"
    /\ callOut' = download_and_unzip(callIn.url, callIn.offset, callIn.length,
                                     callIn.resp, overflowChecks)
    /\ UNCHANGED <<callIn, overflowChecks, batcherVars, workerVars, saverVars, queueVars,
                   poolVars>>

SpecFetch == FetchInit /\ [][DownloadAndUnzipCall]_vars

\* C8: every call sends a Range header covering exactly the bytes
\* [offset, offset + length - 1], and every answer with a status other than 206
\* makes the call return an error, never content.
C8_RangeExactAndNon206IsError ==
    callOut.kind # "pending" =>
        /\ callOut.request.sent
        /\ callOut.request.first = callIn.offset
        /\ callOut.request.last = callIn.offset + callIn.length - 1
        /\ (callIn.resp.status # PARTIAL_CONTENT => callOut.kind = "Err")

\* C23: for every offset and length, length = 0 included, the range end is
\* computed without underflow or overflow: the call does not panic on the
\* arithmetic, the end it sends is the number offset + length - 1 and it is
\* never smaller than offset - 1.
C23_RangeEndWithoutUnderflowOrOverflow ==
    callOut.kind # "pending" =>
        /\ callOut.kind # "Panic"
        /\ callOut.request.last >= callIn.offset - 1
        /\ callOut.request.last - callIn.offset = callIn.length - 1

-----------------------------------------------------------------------------
(* commoncrawl.rs: CdxEntry, parse_cdx_line *)

None == [some |-> FALSE, val |-> <<>>]
Some(v) == [some |-> TRUE, val |-> v]

\* str::contains: needle occurs in hay as a contiguous run
Contains(hay, needle) ==
    \E i \in 1..(Len(hay) - Len(needle) + 1) :
        SubSeq(hay, i, i + Len(needle) - 1) = needle

\* the entry of the capture with URL `id`; two consecutive captures lie in the
\* same WARC file
CdxEntry(id, status, languages) ==
    [surt_url |-> id,
     metadata |-> [url |-> id, status |-> status, length |-> 1,
                   offset |-> id % UsizeMax, filename |-> <<"warc", (id + 1) \div 2>>,
                   languages |-> languages]]

\* One line of a shard as the server holds it: `parts` is the number of pieces
\* splitn(3, ' ') yields, `json` whether the third piece deserializes into a
\* CdxMetadata, `entry` what it then deserializes to.
CdxLine(parts, json, entry) == [parts |-> parts, json |-> json, entry |-> entry]

\* a variant that skips the lines it cannot parse
parse_cdx_line_skipping(line) == [kind |-> "Ok", entry |-> line.entry]

\* the three unwraps: a missing piece or a JSON error panics
parse_cdx_line(line) ==
    IF line.parts < 3 \/ ~line.json
    THEN [kind |-> "Panic", entry |-> line.entry]
    ELSE [kind |-> "Ok", entry |-> line.entry]

-----------------------------------------------------------------------------
(* bin/batcher.rs *)

\* default_value_t of --chunks, and the range its value_parser accepts
DEFAULT_CHUNKS == 1000
MIN_CHUNKS == 1
MAX_CHUNKS == 1000
\* the status select_only_english_cdx_entries asks for
STATUS_OK == 200

Eng == <<"e", "n", "g">>

\* a variant that selects on the language alone
select_any_status(e) ==
    IF e.metadata.languages.some
    THEN Contains(e.metadata.languages.val, Eng)
    ELSE FALSE

select_only_english_cdx_entries(e) ==
    IF e.metadata.languages.some
    THEN Contains(e.metadata.languages.val, Eng) /\ e.metadata.status = STATUS_OK
    ELSE FALSE

RECURSIVE ChunksExact(_, _)
\* a variant that drops the last, shorter chunk (slice::chunks_exact)
ChunksExact(s, n) ==
    IF Len(s) < n THEN <<>>
    ELSE <<SubSeq(s, 1, n)>> \o ChunksExact(SubSeq(s, n + 1, Len(s)), n)

RECURSIVE ChunksOrEmpty(_, _)
\* a variant that yields one empty chunk for an empty slice
ChunksOrEmpty(s, n) ==
    IF Len(s) <= n THEN <<s>>
    ELSE <<SubSeq(s, 1, n)>> \o ChunksOrEmpty(SubSeq(s, n + 1, Len(s)), n)

RECURSIVE Chunks(_, _)
\* slice::chunks(n): consecutive runs of n elements, the last one shorter
Chunks(s, n) ==
    IF s = <<>> THEN <<>>
    ELSE <<SubSeq(s, 1, Min(n, Len(s)))>> \o Chunks(SubSeq(s, Min(n, Len(s)) + 1, Len(s)), n)

\* pipeline::rabbitmq::publish_batch: one message holding the JSON array of
\* the batch's entries is appended to the queue
publish_batch(queue, batch) ==
    Append(queue, [payload |-> [shape |-> "array", of |-> "CdxEntry", items |-> batch],
                   state |-> "ready"])

\* a variant that stops one chunk late
ReachedMaxLate(maxc, processed) == maxc + 1 = processed

\* the test of line 153
ReachedMax(maxc, processed) == maxc = processed

\* the URL of a shard of the index (lines 133-136)
IndexUrl(chunk) == <<"cc-index", chunk.cdx_filename>>

\* the decimal digits of a number, as a string of characters
RECURSIVE ToDecimal(_)
ToDecimal(n) ==
    LET digit(d) == <<"0", "1", "2", "3", "4", "5", "6", "7", "8", "9">>[d + 1]
    IN  IF n < 10 THEN <<digit(n)>> ELSE ToDecimal(n \div 10) \o <<digit(n % 10)>>

\* The k-th entry of the cluster index: its own file name, one unit long.
IdxEntry(k) ==
    [kind |-> "Some", cdx_filename |-> <<"c">> \o ToDecimal(k),
     cdx_offset |-> (k - 1) % UsizeMax, cdx_length |-> 1]

\* the line of the cluster index that holds the k-th entry
IdxLine(k) ==
    JoinFields(<<<<"k">>, ToDecimal(k), IdxEntry(k).cdx_filename,
                 ToDecimal(IdxEntry(k).cdx_offset), ToDecimal(IdxEntry(k).cdx_length),
                 ToDecimal(k)>>, <<" ">>)

\* a line of five fields, which parse_cluster_idx leaves out
ShortIdxLine == JoinFields(<<<<"k">>, <<"0">>, <<"c">>, <<"0">>, <<"1">>>>, <<" ">>)

\* a cluster index of n entries, with a short line in front or without
IndexLines(n, short) ==
    (IF short THEN <<ShortIdxLine>> ELSE <<>>) \o [k \in 1..n |-> IdxLine(k)]

\* format!("./data/{}", index_file_name) is absent
NoFile == [exists |-> FALSE, lines |-> <<>>, utf8 |-> TRUE]

\* File::create: the file exists and is empty
EmptyFile == [exists |-> TRUE, lines |-> <<>>, utf8 |-> TRUE]

\* response.status().is_success()
IsSuccess(status) == status >= 200 /\ status < 300

\* download_and_store up to the await of the body (commoncrawl.rs lines
\* 26-32): the GET may fail; any status but a success is an error; on a
\* success status the file is created, and so emptied
StoreGet(resp, file) ==
    IF ~resp.sendOk THEN [kind |-> "Err", file |-> file]
    ELSE IF ~IsSuccess(resp.status) THEN [kind |-> "Err", file |-> file]
    ELSE IF ~resp.createOk THEN [kind |-> "Err", file |-> file]
    ELSE [kind |-> "Awaiting", file |-> EmptyFile]

\* what a write_all that fails leaves in the file: the lines written whole
\* and the part of the next line that was written before the error
WrittenPart(body, whole, cut) ==
    SubSeq(body, 1, whole)
      \o (IF cut = 0 THEN <<>> ELSE <<SubSeq(body[whole + 1], 1, cut)>>)

\* download_and_store from the body on (lines 33-38): the body is read and
\* written to the file that was created; a body that cannot be read leaves
\* the file as it was created, and a write that fails leaves the part of
\* the body that was written before it failed
StoreBody(resp, file) ==
    IF ~resp.bodyOk THEN [kind |-> "Err", file |-> file]
    ELSE IF ~resp.writeOk
    THEN [kind |-> "Err",
          file |-> [exists |-> TRUE,
                    lines |-> WrittenPart(resp.body, resp.written, resp.cut),
                    utf8 |-> resp.utf8Ok]]
    ELSE [kind |-> "Ok", file |-> [exists |-> TRUE, lines |-> resp.body,
                                   utf8 |-> resp.utf8Ok]]

\* download_and_store (commoncrawl.rs lines 25-39).  resp is the server's
\* answer and the outcome of the file operations.
download_and_store(resp, file) ==
    LET got == StoreGet(resp, file)
    IN  IF got.kind = "Err" THEN got ELSE StoreBody(resp, got.file)

\* the answers to the GET of the cluster index and the outcomes of the file
\* operations that follow: everything in order under each status, and one
\* failing step, or a body that is not UTF-8, under status 200.  A write
\* fails after any number of whole lines and any part of the next one (the
\* whole of it without its line end included); write_all of an empty body
\* writes nothing and cannot fail.
StoreResponses(body) ==
    LET fine == [sendOk |-> TRUE, status |-> 200, createOk |-> TRUE, bodyOk |-> TRUE,
                 writeOk |-> TRUE, written |-> Len(body), cut |-> 0, utf8Ok |-> TRUE,
                 body |-> body]
    IN  {[fine EXCEPT !.status = st] : st \in HttpStatuses}
        \cup {[fine EXCEPT !.sendOk = FALSE], [fine EXCEPT !.createOk = FALSE],
              [fine EXCEPT !.bodyOk = FALSE], [fine EXCEPT !.utf8Ok = FALSE]}
        \cup UNION {{[fine EXCEPT !.writeOk = FALSE, !.written = whole, !.cut = cut] :
                        cut \in 0..Len(body[whole + 1])} :
                     whole \in 0..(Len(body) - 1)}

\* filter_map keeps the entries that parse_cluster_idx returns
IsSomeEntry(e) == e.kind = "Some"

\* lines().filter_map(parse_cluster_idx).collect(): the entries of the lines
\* in order, or a panic when parse_cluster_idx panics on a line
FilterMapIdx(lines) ==
    LET entries == [i \in 1..Len(lines) |-> parse_cluster_idx(lines[i])]
    IN  IF \E i \in 1..Len(lines) : entries[i].kind = "Panic"
        THEN [kind |-> "Panic", idx |-> <<>>]
        ELSE [kind |-> "Ok", idx |-> SelectSeq(entries, IsSomeEntry)]

\* the index read from the file (batcher.rs lines 111-115): read_to_string
\* fails on a file that is not UTF-8, and the lines are parsed one by one
ReadIndex(file) ==
    IF ~file.utf8 THEN [kind |-> "Err", idx |-> <<>>] ELSE FilterMapIdx(file.lines)

\* obtain_index (batcher.rs lines 98-121): the file is downloaded when it is
\* absent, then read and parsed line by line
obtain_index(file, resp) ==
    LET got == IF file.exists THEN [kind |-> "Ok", file |-> file]
               ELSE download_and_store(resp, file)
        parsed == ReadIndex(got.file)
    IN  [kind |-> IF got.kind = "Err" THEN "Err" ELSE parsed.kind,
         idx |-> IF got.kind = "Err" THEN <<>> ELSE parsed.idx,
         file |-> got.file,
         gets |-> IF file.exists THEN <<>>
                  ELSE <<[url |-> <<"cc-index", "cluster.idx">>, resp |-> resp,
                          result |-> got.kind]>>]

\* the kinds of line a shard holds: English with status 200, no language,
\* English with a redirect, a language list without "eng", malformed JSON and
\* a line of two pieces
LineKinds == {"eng,spa 200", "none 200", "eng 301", "deu,en 200", "bad json", "two parts"}

ShardLine(kind, id) ==
    CASE kind = "eng,spa 200" ->
           CdxLine(3, TRUE, CdxEntry(id, 200, Some(<<"e", "n", "g", ",", "s", "p", "a">>)))
      [] kind = "none 200"   -> CdxLine(3, TRUE, CdxEntry(id, 200, None))
      [] kind = "eng 301"    -> CdxLine(3, TRUE, CdxEntry(id, 301, Some(Eng)))
      [] kind = "deu,en 200" ->
           CdxLine(3, TRUE, CdxEntry(id, 200, Some(<<"d", "e", "u", ",", "e", "n">>)))
      [] kind = "bad json"   -> CdxLine(3, FALSE, CdxEntry(id, 0, None))
      [] kind = "two parts"  -> CdxLine(2, FALSE, CdxEntry(id, 0, None))

\* the shards the server may hold when `before` of the lines it holds were
\* served already: every line has its own URL
ShardBodies(before, budget) ==
    {[i \in 1..Len(ks) |-> ShardLine(ks[i], before + i)] :
        ks \in SeqsUpTo(LineKinds, Min(MaxShardLines, budget))}

\* the --chunks values tried: none, the ends of the accepted range, values
\* just outside it, and small values
ChunksArgs ==
    {[given |-> FALSE, val |-> 0]}
    \cup [given : {TRUE},
          val : (1..MaxChunksArg) \cup {0, MIN_CHUNKS, MAX_CHUNKS, MAX_CHUNKS + 1}]

BatcherInit ==
    /\ bpc = "start"
    /\ chunksArg \in ChunksArgs
    /\ maxChunks = 0
    /\ \E n \in 0..MaxIdx, short, local, utf8 \in BOOLEAN :
         /\ indexFile = IF local
                        THEN [exists |-> TRUE, lines |-> IndexLines(n, short),
                              utf8 |-> utf8]
                        ELSE NoFile
         /\ indexRemote = IF local THEN <<>> ELSE IndexLines(n, short)
    /\ indexGets = <<>>
    /\ idx = <<>>
    /\ cursor = 0
    /\ numProcessed = 0
    /\ fetchLog = <<>>
    /\ shardResp = NoResponse
    /\ shardLog = <<>>
    /\ pendingBatches = <<>>
    /\ lineBudget = MaxShardLines
    /\ overflowChecks \in BOOLEAN
    /\ WorkerOff
    /\ SaverOff
    /\ QueuesEmpty
    /\ UnitOff
    /\ PoolOff

\* where run may fail before obtain_index (batcher.rs lines 78-81)
BrokerFaults == {"none", "connect", "declare"}

\* main and run up to the call of obtain_index: clap rejects a --chunks value
\* outside 1..=1000 and fills in the default when the argument is absent;
\* the connection to the broker is opened and the queue declared, and an
\* error of either ends the run
BatcherStart ==
    /\ bpc = "start"
    /\ IF chunksArg.given /\ chunksArg.val \notin MIN_CHUNKS..MAX_CHUNKS
       THEN /\ bpc' = "usage_error"
            /\ UNCHANGED maxChunks
       ELSE \E fault \in BrokerFaults :
              /\ maxChunks' = IF chunksArg.given THEN chunksArg.val ELSE DEFAULT_CHUNKS
              /\ bpc' = IF fault = "none" THEN "obtain_index" ELSE "failed"
    /\ UNCHANGED <<chunksArg, indexFile, indexRemote, indexGets, idx, cursor, numProcessed,
                   fetchLog, shardResp, shardLog, pendingBatches, lineBudget,
                   overflowChecks, unitVars, poolVars, workerVars, saverVars, queueVars>>

\* where the run goes once the index was read: an error or a panic ends it,
\* and the for loop of process_index ends at once on an empty index
AfterIndex(parsed) ==
    IF parsed.kind = "Err" THEN "failed"
    ELSE IF parsed.kind = "Panic" THEN "panicked"
    ELSE IF parsed.idx = <<>> THEN "done"
    ELSE "process_index"

\* obtain_index up to its first await (batcher.rs lines 98-109, commoncrawl.rs
\* lines 26-32): a file that exists is read and parsed; otherwise the index
\* is requested, and on a success status the file is created before the
\* body is awaited
BatcherObtainIndex ==
    /\ bpc = "obtain_index"
    /\ IF indexFile.exists
       THEN LET parsed == ReadIndex(indexFile)
            IN  /\ idx' = parsed.idx
                /\ bpc' = AfterIndex(parsed)
                /\ UNCHANGED <<indexFile, indexGets>>
       ELSE \E resp \in StoreResponses(indexRemote) :
              LET got == StoreGet(resp, indexFile)
              IN  /\ indexFile' = got.file
                  /\ indexGets' = <<[url |-> <<"cc-index", "cluster.idx">>, resp |-> resp,
                                     result |-> IF got.kind = "Err" THEN "Err"
                                                ELSE "pending"]>>
                  /\ bpc' = IF got.kind = "Err" THEN "failed" ELSE "store_index"
                  /\ UNCHANGED idx
    /\ UNCHANGED <<chunksArg, maxChunks, indexRemote, cursor, numProcessed, fetchLog,
                   shardResp, shardLog, pendingBatches, lineBudget, overflowChecks,
                   unitVars, poolVars, workerVars, saverVars, queueVars>>

\* the body of the index arrives (commoncrawl.rs lines 33-38) and is written
\* to the file, which is then read and parsed (batcher.rs lines 111-115)
BatcherStoreIndex ==
    /\ bpc = "store_index"
    /\ LET got == StoreBody(indexGets[1].resp, indexFile)
           parsed == ReadIndex(got.file)
       IN  /\ indexFile' = got.file
           /\ indexGets' = [indexGets EXCEPT ![1].result = got.kind]
           /\ idx' = IF got.kind = "Err" THEN <<>> ELSE parsed.idx
           /\ bpc' = IF got.kind = "Err" THEN "failed" ELSE AfterIndex(parsed)
    /\ UNCHANGED <<chunksArg, maxChunks, indexRemote, cursor, numProcessed, fetchLog,
                   shardResp, shardLog, pendingBatches, lineBudget, overflowChecks,
                   unitVars, poolVars, workerVars, saverVars, queueVars>>

\* where the loop goes when the batches of a shard are published (lines
\* 151-155)
AfterShard(processed) ==
    IF ReachedMax(maxChunks, processed) \/ cursor + 1 = Len(idx)
    THEN "done" ELSE "process_index"

\* One iteration of the for loop of process_index up to its first publish
\* (batcher.rs lines 131-146): the shard is requested, unzipped, parsed and
\* filtered, and the selected entries are cut into batches; a shard without
\* a selected entry is counted at once.
BatcherFetchShard ==
    /\ bpc = "process_index"
    /\ cursor < Len(idx)
    /\ \E resp \in ResponsesRead(ShardBodies(MaxShardLines - lineBudget, lineBudget)) :
        LET cdx_chunk == idx[cursor + 1]
            r == download_and_unzip(IndexUrl(cdx_chunk), cdx_chunk.cdx_offset,
                                    cdx_chunk.cdx_length, resp, overflowChecks)
            lines == r.content
            parsed == [i \in 1..Len(lines) |-> parse_cdx_line(lines[i])]
            entries == [i \in 1..Len(lines) |-> parsed[i].entry]
            english_cdx_entries == SelectSeq(entries, select_only_english_cdx_entries)
            batches == Chunks(english_cdx_entries, BATCH_SIZE)
        IN  /\ fetchLog' = IF r.request.sent THEN Append(fetchLog, r.request) ELSE fetchLog
            /\ shardResp' = resp
            /\ IF r.kind = "Panic"
               THEN /\ bpc' = "panicked"
                    /\ UNCHANGED <<cursor, numProcessed, shardLog, pendingBatches,
                                   lineBudget>>
               ELSE IF r.kind = "Err" \/ ~resp.utf8Ok
               THEN /\ bpc' = "failed"
                    /\ UNCHANGED <<cursor, numProcessed, shardLog, pendingBatches,
                                   lineBudget>>
               ELSE IF \E i \in 1..Len(lines) : parsed[i].kind = "Panic"
               THEN /\ bpc' = "panicked"
                    /\ UNCHANGED <<cursor, numProcessed, shardLog, pendingBatches,
                                   lineBudget>>
               ELSE /\ lineBudget' = lineBudget - Len(lines)
                    /\ pendingBatches' = batches
                    /\ IF batches = <<>>
                       THEN /\ shardLog' = Append(shardLog, lines)
                            /\ cursor' = cursor + 1
                            /\ numProcessed' = numProcessed + 1
                            /\ bpc' = AfterShard(numProcessed + 1)
                       ELSE /\ bpc' = "publishing"
                            /\ UNCHANGED <<cursor, numProcessed, shardLog>>
    /\ UNCHANGED <<chunksArg, maxChunks, indexFile, indexRemote, indexGets, idx,
                   overflowChecks, unitVars, poolVars, workerVars, saverVars, queueVars>>

\* One turn of the loop over the batches of the shard (lines 146-149): the
\* next batch is published; after the last one the shard is counted and the
\* loop over the index goes on or ends (lines 151-155).
BatcherPublishBatch ==
    /\ bpc = "publishing"
    /\ batchesQueue' = publish_batch(batchesQueue, Head(pendingBatches))
    /\ pendingBatches' = Tail(pendingBatches)
    /\ IF Tail(pendingBatches) = <<>>
       THEN /\ shardLog' = Append(shardLog, shardResp.body)
            /\ cursor' = cursor + 1
            /\ numProcessed' = numProcessed + 1
            /\ bpc' = AfterShard(numProcessed + 1)
       ELSE UNCHANGED <<bpc, cursor, numProcessed, shardLog>>
    /\ UNCHANGED <<chunksArg, maxChunks, indexFile, indexRemote, indexGets, idx, fetchLog,
                   shardResp, lineBudget, overflowChecks, unitVars, poolVars, workerVars,
                   saverVars, storeQueue>>

BatcherNext ==
    \/ BatcherStart
    \/ BatcherObtainIndex
    \/ BatcherStoreIndex
    \/ BatcherFetchShard
    \/ BatcherPublishBatch

SpecBatcher == BatcherInit /\ [][BatcherNext]_vars

\* the lines of a long cluster index: every line names the same shard file,
\* as runs of lines of a real cluster.idx do, at one offset after the other
LongIndexLines(n) ==
    [k \in 1..n |-> JoinFields(<<<<"k">>, <<"0">>, <<"c">>, ToDecimal((k - 1) % UsizeMax),
                                 <<"1">>, <<"0">>>>, <<" ">>)]

\* The runs with the --chunks argument left out: a local index one line longer
\* than the default with every shard empty, and an index of one line that is
\* downloaded, whose shard may hold a line.
BatcherLongInit ==
    /\ bpc = "start"
    /\ chunksArg = [given |-> FALSE, val |-> 0]
    /\ maxChunks = 0
    /\ \E long \in BOOLEAN :
         /\ indexFile = IF long
                        THEN [exists |-> TRUE, lines |-> LongIndexLines(DEFAULT_CHUNKS + 1),
                              utf8 |-> TRUE]
                        ELSE NoFile
         /\ indexRemote = IF long THEN <<>> ELSE IndexLines(1, FALSE)
         /\ lineBudget = IF long THEN 0 ELSE 1
    /\ indexGets = <<>>
    /\ idx = <<>>
    /\ cursor = 0
    /\ numProcessed = 0
    /\ fetchLog = <<>>
    /\ shardResp = NoResponse
    /\ shardLog = <<>>
    /\ pendingBatches = <<>>
    /\ overflowChecks = FALSE
    /\ WorkerOff
    /\ SaverOff
    /\ QueuesEmpty
    /\ UnitOff
    /\ PoolOff

SpecBatcherLong == BatcherLongInit /\ [][BatcherNext]_vars

\* the batches published so far, in publication order
PublishedBatches == [i \in 1..Len(batchesQueue) |-> batchesQueue[i].payload.items]

\* the entries of every line of every processed shard, in order
ProcessedEntries ==
    LET lines == Flatten(shardLog) IN [i \in 1..Len(lines) |-> lines[i].entry]

\* the lines of the shards fetched without failure: those processed and the
\* one whose batches are being published
SeenShards == shardLog \o (IF bpc = "publishing" THEN <<shardResp.body>> ELSE <<>>)

\* the entries of every line of those shards, in order
SeenEntries ==
    LET lines == Flatten(SeenShards) IN [i \in 1..Len(lines) |-> lines[i].entry]

\* C5: no published batch holds more than BATCH_SIZE entries, and the
\* published batches, concatenated in publication order and followed by the
\* batches of the shard in hand that are still to be published, are exactly
\* the entries of the shards that passed the filter, in their order; when
\* no shard is in hand the published batches alone are.
C5_BatchesPartitionFilteredEntries ==
    /\ \A i \in 1..Len(PublishedBatches) : Len(PublishedBatches[i]) <= BATCH_SIZE
    /\ Flatten(PublishedBatches) \o Flatten(pendingBatches)
         = SelectSeq(SeenEntries, select_only_english_cdx_entries)
    /\ bpc # "publishing" =>
         Flatten(PublishedBatches)
            = SelectSeq(ProcessedEntries, select_only_english_cdx_entries)

\* a shard was cut into a full batch followed by a shorter one
C5_Witness ==
    /\ bpc = "done"
    /\ \E i \in 1..(Len(PublishedBatches) - 1) :
         /\ Len(PublishedBatches[i]) = BATCH_SIZE
         /\ Len(PublishedBatches[i + 1]) \in 1..(BATCH_SIZE - 1)

\* the spec's filter: languages present, holding "eng", and status 200
HasEngTag(l) ==
    \E i \in 1..(Len(l) - 2) : l[i] = "e" /\ l[i + 1] = "n" /\ l[i + 2] = "g"

IsPublished(e) ==
    \E b \in 1..Len(PublishedBatches) :
        \E j \in 1..Len(PublishedBatches[b]) : PublishedBatches[b][j] = e

\* C6: an entry of a processed shard is selected (and so published) if and
\* only if its languages are present, hold "eng", and its status is 200; no
\* published entry lacks languages or has another status.
C6_SelectedIffEnglishAnd200 ==
    /\ \A i \in 1..Len(ProcessedEntries) :
         LET e == ProcessedEntries[i]
         IN  IsPublished(e) <=> /\ e.metadata.languages.some
                                /\ HasEngTag(e.metadata.languages.val)
                                /\ e.metadata.status = 200
    /\ \A b \in 1..Len(PublishedBatches) : \A j \in 1..Len(PublishedBatches[b]) :
         /\ PublishedBatches[b][j].metadata.languages.some
         /\ PublishedBatches[b][j].metadata.status = 200

\* a shard with an English 200 entry, an English redirect and an entry without
\* languages was processed; only the first was published
C6_Witness ==
    /\ \E i \in 1..Len(ProcessedEntries) :
         ProcessedEntries[i].metadata.status = 301 /\ ~IsPublished(ProcessedEntries[i])
    /\ \E i \in 1..Len(ProcessedEntries) :
         ~ProcessedEntries[i].metadata.languages.some /\ ~IsPublished(ProcessedEntries[i])
    /\ \E i \in 1..Len(ProcessedEntries) : IsPublished(ProcessedEntries[i])

\* C9: with a maximum of m chunks and an index of N lines, the shards fetched
\* are the first lines of the index in order, never more than min(m, N) of
\* them; a run that ends without failure has fetched and processed exactly
\* min(m, N), and a run that has processed min(m, N) does not go on.
C9_FetchesFirstMinOfMaxAndLines ==
    (bpc \in {"process_index", "publishing", "done"}
        \/ (bpc \in {"failed", "panicked"} /\ idx # <<>>)) =>
        LET want == Min(maxChunks, Len(idx))
        IN  /\ maxChunks \in MIN_CHUNKS..MAX_CHUNKS
            /\ Len(fetchLog) <= want
            /\ \A k \in 1..Len(fetchLog) :
                 /\ fetchLog[k].url = IndexUrl(idx[k])
                 /\ fetchLog[k].first = idx[k].cdx_offset
            /\ Len(shardLog) = numProcessed
            /\ bpc = "done" => (Len(fetchLog) = want /\ numProcessed = want)
            /\ bpc \in {"process_index", "publishing"} => numProcessed < want

\* a run with a maximum below the number of lines ended after the maximum
C9_Witness ==
    /\ bpc = "done"
    /\ maxChunks < Len(idx)
    /\ Len(fetchLog) = maxChunks
    /\ numProcessed = maxChunks

\* C10: with --chunks left out, a run that ends without failure has processed
\* every line of the cluster index.
C10_OmittedMaxProcessesAllLines ==
    (bpc = "done" /\ ~chunksArg.given) => numProcessed = Len(idx)

\* the entries of the lines of the k-th shard fetched without failure
ShardEntries(k) == [i \in 1..Len(SeenShards[k]) |-> SeenShards[k][i].entry]

\* the published batches that hold an entry of the k-th shard
BatchesOfShard(k) ==
    {b \in 1..Len(PublishedBatches) :
        \E j \in 1..Len(PublishedBatches[b]), i \in 1..Len(SeenShards[k]) :
            PublishedBatches[b][j] = ShardEntries(k)[i]}

\* C24: every published batch holds between 1 and BATCH_SIZE entries, all of
\* them entries of one shard, and a shard none of whose lines passes the
\* filter has no batch and adds no message to the queue.
C24_NoEmptyBatchNoMixedShards ==
    /\ \A b \in 1..Len(PublishedBatches) :
         /\ Len(PublishedBatches[b]) \in 1..BATCH_SIZE
         /\ \E k \in 1..Len(SeenShards) :
              \A j \in 1..Len(PublishedBatches[b]) :
                 \E i \in 1..Len(SeenShards[k]) :
                    PublishedBatches[b][j] = ShardEntries(k)[i]
    /\ \A k \in 1..Len(SeenShards) :
         SelectSeq(ShardEntries(k), select_only_english_cdx_entries) = <<>> =>
            BatchesOfShard(k) = {}
    /\ \A k1, k2 \in 1..Len(SeenShards) :
         k1 # k2 => BatchesOfShard(k1) \cap BatchesOfShard(k2) = {}

\* a shard with lines none of which passes the filter was processed without
\* a publication, and a later shard was published as one full batch
C24_Witness ==
    /\ Len(shardLog) = 2
    /\ shardLog[1] # <<>>
    /\ BatchesOfShard(1) = {}
    /\ Len(PublishedBatches) = 1
    /\ BatchesOfShard(2) = {1}
    /\ Len(PublishedBatches[1]) = BATCH_SIZE

\* C13: the index is requested only in a step that finds no local file, and
\* a run that finds the file leaves it as it is and requests nothing; a
\* download answered with a success status returns Ok and leaves the file
\* holding the response body; one answered with another status returns an
\* error, leaves no file, and the run fails with no shard fetched and no
\* batch published.
C13_DownloadOnlyWhenAbsentStoreOnSuccess ==
    [][/\ (indexGets = <<>> /\ indexGets' # <<>>) => ~indexFile.exists
       /\ (bpc = "obtain_index" /\ indexFile.exists) =>
              (indexGets' = <<>> /\ indexFile' = indexFile)
       /\ (indexGets' # <<>> /\ indexGets'[1].result # "pending") =>
              LET get == indexGets'[1]
              IN  /\ (get.resp.sendOk /\ IsSuccess(get.resp.status)) =>
                       /\ get.result = "Ok"
                       /\ indexFile'.exists
                       /\ indexFile'.lines = get.resp.body
                  /\ (get.resp.sendOk /\ ~IsSuccess(get.resp.status)) =>
                       /\ get.result = "Err"
                       /\ indexFile' = NoFile
                       /\ bpc' = "failed"
                       /\ fetchLog' = <<>>
                       /\ batchesQueue' = <<>>]_vars

\* the handling of a shard fails: the request, the status, the body, the
\* decompression or the decoding fails, or a line of the shard is malformed
ShardFailed(resp) ==
    \/ ~resp.sendOk
    \/ resp.status # PARTIAL_CONTENT
    \/ ~resp.bodyOk
    \/ ~resp.gzipOk
    \/ ~resp.utf8Ok
    \/ \E i \in 1..Len(resp.body) : resp.body[i].parts < 3 \/ ~resp.body[i].json

\* C17: when the handling of shard k fails, the run has ended abnormally, the
\* shard was requested once and nothing after it, no entry of shard k is
\* published, and what is published is still exactly the batches of the
\* shards before k.
C17_ShardErrorAbortsRun ==
    (shardResp.status # 0 /\ ShardFailed(shardResp)) =>
        /\ bpc \in {"failed", "panicked"}
        /\ Len(fetchLog) = numProcessed + 1
        /\ Len(shardLog) = numProcessed
        /\ \A i \in 1..Len(shardResp.body) : ~IsPublished(shardResp.body[i].entry)
        /\ Flatten(PublishedBatches)
             = SelectSeq(ProcessedEntries, select_only_english_cdx_entries)

\* the second shard held an English entry and a malformed line: the run
\* ended with the batch of the first shard published
C17_Witness ==
    /\ bpc = "panicked"
    /\ numProcessed = 1
    /\ batchesQueue # <<>>
    /\ \E i \in 1..Len(shardResp.body) : ~shardResp.body[i].json
    /\ \E i \in 1..Len(shardResp.body) :
         select_only_english_cdx_entries(shardResp.body[i].entry)

-----------------------------------------------------------------------------
(* bin/worker.rs *)

\* the bounds of (500..=1000000) and the prefix the debug line prints
MIN_LEN == 500
MAX_LEN == 1000000
DEBUG_PREFIX == 1000

\* a payload that is not JSON at all
Garbage == [shape |-> "garbage", of |-> "none", items |-> <<>>]

\* serde_json::from_slice::<Vec<T>>: the payload must be a JSON array whose
\* elements deserialize into T
ParseVec(payload, type) ==
    IF payload.shape = "array" /\ (payload.items = <<>> \/ payload.of = type)
    THEN [ok |-> TRUE, items |-> payload.items]
    ELSE [ok |-> FALSE, items |-> <<>>]

\* a variant that hands out a delivery again while it is unacknowledged
FirstUnsettled(queue) ==
    IF \E i \in 1..Len(queue) : queue[i].state \in {"ready", "unacked"}
    THEN CHOOSE i \in 1..Len(queue) :
            /\ queue[i].state \in {"ready", "unacked"}
            /\ \A j \in 1..(i - 1) : queue[j].state \notin {"ready", "unacked"}
    ELSE 0

\* the position of the first delivery the broker has not handed out yet
FirstReady(queue) ==
    IF \E i \in 1..Len(queue) : queue[i].state = "ready"
    THEN CHOOSE i \in 1..Len(queue) :
            /\ queue[i].state = "ready"
            /\ \A j \in 1..(i - 1) : queue[j].state # "ready"
    ELSE 0

\* a variant with an exclusive upper bound (500..1000000)
ContentInRangeExclusive(len) == len >= MIN_LEN /\ len < MAX_LEN

\* (500..=1000000).contains(&len)
ContentInRange(len) == len >= MIN_LEN /\ len <= MAX_LEN

\* the lengths of extracted content tried: the two bounds and their neighbours
ContentLengths == {MIN_LEN - 1, MIN_LEN, MAX_LEN, MAX_LEN + 1}

\* One capture record of a WARC range, by what the code asks of it: whether
\* the reader parses it, its WARC-Type ("none" when it has no such header),
\* whether it has a WARC-Target-URI and which, whether the body holds a blank
\* line, the body's length in bytes and whether byte 1000 of it starts a
\* character, what trafilatura::extract returns for it ("Err", "None", or
\* "Some" content of `len` bytes), whether the tokenizer encodes that content
\* and whether the broker takes the message published for it.
BaseRecord ==
    [parseOk |-> TRUE, warcType |-> "response", hasUri |-> TRUE, uri |-> 0,
     blankLine |-> TRUE, rawLen |-> DEBUG_PREFIX, cutOk |-> TRUE, extract |-> "Some",
     len |-> MIN_LEN, tokOk |-> TRUE, pubOk |-> TRUE]

RecordShapes(tokFails) ==
    {[BaseRecord EXCEPT !.parseOk = FALSE],
     [BaseRecord EXCEPT !.warcType = "request"],
     [BaseRecord EXCEPT !.warcType = "request", !.hasUri = FALSE],
     [BaseRecord EXCEPT !.warcType = "none"],
     [BaseRecord EXCEPT !.hasUri = FALSE],
     [BaseRecord EXCEPT !.blankLine = FALSE],
     [BaseRecord EXCEPT !.rawLen = DEBUG_PREFIX - 1],
     [BaseRecord EXCEPT !.rawLen = DEBUG_PREFIX + 3, !.cutOk = FALSE],
     [BaseRecord EXCEPT !.extract = "Err"],
     [BaseRecord EXCEPT !.extract = "None"],
     [BaseRecord EXCEPT !.extract = "None", !.rawLen = DEBUG_PREFIX - 1],
     [BaseRecord EXCEPT !.pubOk = FALSE]}
    \cup {[BaseRecord EXCEPT !.len = l, !.tokOk = t] :
            l \in ContentLengths, t \in (IF tokFails THEN BOOLEAN ELSE {TRUE})}

\* the WARC ranges the server may hold when `before` of its records were
\* served already: every record has its own target URI
WarcBodies(before, budget, tokFails) ==
    {[i \in 1..Len(ks) |-> [ks[i] EXCEPT !.uri = before + i]] :
        ks \in SeqsUpTo(RecordShapes(tokFails), Min(MaxRecords, budget))}

WarcUrl(entry) == <<"data", entry.metadata.filename>>

\* what Tokenizer::encode returns for the content of a record
Encoded(rec) == IF rec.tokOk THEN "Ok" ELSE "Err"

\* tokenize (lines 153-157): encode(..).unwrap() panics when the tokenizer
\* fails, and the function returns Ok otherwise
tokenize(rec) ==
    IF rec.tokOk THEN [kind |-> "Ok", tokens |-> <<"tok">>]
    ELSE [kind |-> "Panic", tokens |-> <<>>]

CdxFileContext(entry, rec, tokens) ==
    [filename |-> entry.metadata.filename,
     content |-> [doc |-> rec.uri, len |-> rec.len],
     target_uri |-> rec.uri,
     tokens |-> tokens]

\* pipeline::rabbitmq::publish: one message holding the serialized item is
\* appended to the queue
publish(queue, item) ==
    Append(queue, [payload |-> [shape |-> "object", of |-> "CdxFileContext",
                                items |-> <<item>>],
                   state |-> "ready"])

RECURSIVE PublishAll(_, _)
PublishAll(queue, items) ==
    IF items = <<>> THEN queue ELSE PublishAll(publish(queue, Head(items)), Tail(items))

\* what a call leaves behind: its result, the messages it published and the
\* contents it extracted
Outcome(result, msgs, log) == [result |-> result, msgs |-> msgs, log |-> log]

\* `&raw_content[..1000]` (line 118), evaluated when the DEBUG level is
\* enabled: the slice panics when the content is shorter than 1000 bytes or
\* byte 1000 is inside a character
DebugSlicePanics(rec, debug) ==
    debug /\ (rec.rawLen < DEBUG_PREFIX \/ ~rec.cutOk)

\* extract_and_process_content (lines 102-151) on one response record
extract_and_process_content(entry, rec, debug) ==
    IF ~rec.blankLine THEN Outcome("Ok", <<>>, <<>>)
    ELSE IF DebugSlicePanics(rec, debug) THEN Outcome("Panic", <<>>, <<>>)
    ELSE IF rec.extract = "Err" THEN Outcome("Err", <<>>, <<>>)
    ELSE IF rec.extract = "None" THEN Outcome("Ok", <<>>, <<>>)
    ELSE IF ~ContentInRange(rec.len)
    THEN Outcome("Ok", <<>>, <<[uri |-> rec.uri, len |-> rec.len, encoded |-> "none",
                                publish |-> "none", result |-> "Ok"]>>)
    ELSE LET t == tokenize(rec)
             tokens == IF t.kind = "Err" THEN <<>> ELSE t.tokens
         IN  IF t.kind = "Panic"
             THEN Outcome("Panic", <<>>,
                          <<[uri |-> rec.uri, len |-> rec.len, encoded |-> Encoded(rec),
                             publish |-> "none", result |-> "Panic"]>>)
             ELSE IF ~rec.pubOk
             THEN Outcome("Err", <<>>,
                          <<[uri |-> rec.uri, len |-> rec.len, encoded |-> Encoded(rec),
                             publish |-> "Err", result |-> "Err"]>>)
             ELSE Outcome("Ok", <<CdxFileContext(entry, rec, tokens)>>,
                          <<[uri |-> rec.uri, len |-> rec.len, encoded |-> Encoded(rec),
                             publish |-> "Ok", result |-> "Ok"]>>)

\* a variant that takes every record for a response
IsResponseAlways(rec) == TRUE

\* warc_entry.header(WarcHeader::WarcType).unwrap() != "response" (line 88)
IsResponse(rec) == rec.warcType = "response"

\* one turn of the loop over the records of a range (lines 85-96): a record
\* the reader cannot parse returns the error, the unwrap of a missing
\* WARC-Type panics, a record that is no response is skipped, and the unwrap
\* of a response's missing WARC-Target-URI panics
ProcessRecord(entry, rec, debug) ==
    IF ~rec.parseOk THEN Outcome("Err", <<>>, <<>>)
    ELSE IF rec.warcType = "none" THEN Outcome("Panic", <<>>, <<>>)
    ELSE IF ~IsResponse(rec) THEN Outcome("Ok", <<>>, <<>>)
    ELSE IF ~rec.hasUri THEN Outcome("Panic", <<>>, <<>>)
    ELSE extract_and_process_content(entry, rec, debug)

RECURSIVE ProcessRecords(_, _, _)
\* the loop over the records of a range (lines 85-97): the first record that
\* does not return Ok ends it, and what earlier records published stays
\* published
ProcessRecords(entry, records, debug) ==
    IF records = <<>> THEN Outcome("Ok", <<>>, <<>>)
    ELSE LET e == ProcessRecord(entry, Head(records), debug)
             rest == ProcessRecords(entry, Tail(records), debug)
         IN  IF e.result # "Ok" THEN e
             ELSE Outcome(rest.result, e.msgs \o rest.msgs, e.log \o rest.log)

\* process_index_entry (lines 80-100), from its call to its return
process_index_entry(entry, resp, checks, debug) ==
    LET r == download_and_unzip(WarcUrl(entry), entry.metadata.offset,
                                entry.metadata.length, resp, checks)
    IN  IF r.kind # "Ok" THEN Outcome(r.kind, <<>>, <<>>)
        ELSE ProcessRecords(entry, r.content, debug)

\* a variant that goes on with the next entry after an error
EntryLoopSkipping(result, remaining) ==
    IF result = "Panic" THEN "panicked"
    ELSE IF remaining = 0 THEN "ack" ELSE "entries"

\* the `?` of line 64 and the end of the for loop
EntryLoop(result, remaining) ==
    IF result = "Panic" THEN "panicked"
    ELSE IF result = "Err" THEN "failed"
    ELSE IF remaining = 0 THEN "ack" ELSE "entries"

\* the batch of `n` entries that is the `i`-th message of a queue
BatchPayload(i, n) ==
    [shape |-> "array", of |-> "CdxEntry",
     items |-> [j \in 1..n |-> CdxEntry((i - 1) * BATCH_SIZE + j, 200, Some(Eng))]]

\* the batches queue at the start: every message is a batch of up to
\* BATCH_SIZE entries or a payload that is no JSON
WorkerQueues ==
    {[i \in 1..Len(ks) |->
        [payload |-> IF ks[i] < 0 THEN Garbage ELSE BatchPayload(i, ks[i]),
         state |-> "ready"]] :
        ks \in SeqsUpTo((0..BATCH_SIZE) \cup {-1}, MaxDeliveries)}

\* a worker about to enter its loop, with a tokenizer that may fail or not
WorkerStart(tokFails) ==
    /\ wpc = "consume"
    /\ wDelivery = 0
    /\ wEntry = 0
    /\ wRecord = 0
    /\ entryLog = <<>>
    /\ contentLog = <<>>
    /\ wRecvErrors = 0
    /\ recordBudget = MaxRecords
    /\ debugLog \in BOOLEAN
    /\ tokenizerFails = tokFails
    /\ batchesQueue \in WorkerQueues
    /\ storeQueue = <<>>
    /\ overflowChecks = TRUE
    /\ BatcherOff
    /\ SaverOff
    /\ UnitOff
    /\ PoolOff

WorkerInit == WorkerStart(FALSE)

WorkerTokenizerInit == WorkerStart(TRUE)

\* consumer.next() yields a delivery: the broker hands out the first message
\* it holds, and the payload is deserialized (line 51)
WorkerReceive ==
    /\ wpc = "consume"
    /\ FirstReady(batchesQueue) # 0
    /\ LET i == FirstReady(batchesQueue)
           batch == ParseVec(batchesQueue[i].payload, "CdxEntry")
       IN  /\ batchesQueue' = [batchesQueue EXCEPT ![i].state = "unacked"]
           /\ wDelivery' = i
           /\ wEntry' = 0
           /\ wpc' = IF ~batch.ok THEN "failed"
                     ELSE IF batch.items = <<>> THEN "ack" ELSE "entries"
    /\ UNCHANGED <<wRecord, entryLog, contentLog, wRecvErrors, recordBudget, debugLog,
                   tokenizerFails, storeQueue, overflowChecks, batcherVars, unitVars,
                   poolVars, saverVars>>

\* a variant in which an error of the consumer ends the run
OnReceiveErrorStop == "failed"

\* `continue` (worker.rs line 71, saver.rs line 111): back to consumer.next()
OnReceiveError == "consume"

\* a variant that goes on to the next receive when the ack fails
AfterAckIgnoringError(ackOk) == "consume"

\* delivery.ack(..).await? (worker.rs line 67, saver.rs line 107): the next
\* receive, or the end of run with the error
AfterAck(ackOk) == IF ackOk THEN "consume" ELSE "failed"

\* consumer.next() yields an error (lines 69-72): it is logged and the loop
\* goes on to the next receive
WorkerReceiveError ==
    /\ wpc = "consume"
    /\ wRecvErrors < MaxRecvErrors
    /\ wRecvErrors' = wRecvErrors + 1
    /\ wpc' = OnReceiveError
    /\ UNCHANGED <<wDelivery, wEntry, wRecord, entryLog, contentLog, recordBudget,
                   debugLog, tokenizerFails, queueVars, overflowChecks, batcherVars,
                   unitVars, poolVars, saverVars>>

\* the entry log with the result of the call in progress filled in
Returned(log, result) == [log EXCEPT ![Len(log)].result = result]

\* the call of process_index_entry for the next entry of the batch (line 64)
\* up to its first record: the range is requested and unzipped (lines
\* 81-82); an error or a panic of that ends the run, and a range without
\* records returns Ok at once
WorkerFetchRange ==
    /\ wpc = "entries"
    /\ \E resp \in ResponsesRead(WarcBodies(MaxRecords - recordBudget, recordBudget,
                                            tokenizerFails)) :
        LET batch == batchesQueue[wDelivery].payload.items
            entry == batch[wEntry + 1]
            r == download_and_unzip(WarcUrl(entry), entry.metadata.offset,
                                    entry.metadata.length, resp, overflowChecks)
            result == IF r.kind # "Ok" THEN r.kind
                      ELSE IF r.content = <<>> THEN "Ok" ELSE "pending"
        IN  /\ entryLog' = Append(entryLog, [delivery |-> wDelivery, entry |-> wEntry + 1,
                                             records |-> resp.body, result |-> result])
            /\ recordBudget' = recordBudget - Len(resp.body)
            /\ wEntry' = IF result = "Ok" THEN wEntry + 1 ELSE wEntry
            /\ wpc' = IF result = "pending" THEN "records"
                      ELSE EntryLoop(result, Len(batch) - (wEntry + 1))
    /\ UNCHANGED <<wDelivery, wRecord, contentLog, wRecvErrors, debugLog, tokenizerFails,
                   queueVars, overflowChecks, batcherVars, unitVars, poolVars, saverVars>>

\* one turn of the loop over the records of the range (lines 85-97), with
\* the publish of line 145 when the record's content is accepted; after the
\* last record, or on an error or a panic, process_index_entry returns
WorkerProcessRecord ==
    /\ wpc = "records"
    /\ LET batch == batchesQueue[wDelivery].payload.items
           records == entryLog[Len(entryLog)].records
           e == ProcessRecord(batch[wEntry + 1], records[wRecord + 1], debugLog)
           result == IF e.result # "Ok" THEN e.result
                     ELSE IF wRecord + 1 = Len(records) THEN "Ok" ELSE "pending"
       IN  /\ storeQueue' = PublishAll(storeQueue, e.msgs)
           /\ contentLog' = contentLog \o e.log
           /\ entryLog' = Returned(entryLog, result)
           /\ wRecord' = IF result = "pending" THEN wRecord + 1 ELSE 0
           /\ wEntry' = IF result = "Ok" THEN wEntry + 1 ELSE wEntry
           /\ wpc' = IF result = "pending" THEN "records"
                     ELSE EntryLoop(result, Len(batch) - (wEntry + 1))
    /\ UNCHANGED <<wDelivery, wRecvErrors, recordBudget, debugLog, tokenizerFails,
                   batchesQueue, overflowChecks, batcherVars, unitVars, poolVars,
                   saverVars>>

\* delivery.ack(..).await? (line 67)
WorkerAck ==
    /\ wpc = "ack"
    /\ \E ackOk \in BOOLEAN :
        /\ batchesQueue' = IF ackOk
                           THEN [batchesQueue EXCEPT ![wDelivery].state = "acked"]
                           ELSE batchesQueue
        /\ wpc' = AfterAck(ackOk)
    /\ UNCHANGED <<wDelivery, wEntry, wRecord, entryLog, contentLog, wRecvErrors,
                   recordBudget, debugLog, tokenizerFails, storeQueue, overflowChecks,
                   batcherVars, unitVars, poolVars, saverVars>>

\* consumer.next() yields None: the while loop ends and run returns Ok
WorkerStreamEnd ==
    /\ wpc = "consume"
    /\ wpc' = "done"
    /\ UNCHANGED <<wDelivery, wEntry, wRecord, entryLog, contentLog, wRecvErrors,
                   recordBudget, debugLog, tokenizerFails, queueVars, overflowChecks,
                   batcherVars, unitVars, poolVars, saverVars>>

WorkerNext ==
    \/ WorkerReceive
    \/ WorkerReceiveError
    \/ WorkerFetchRange
    \/ WorkerProcessRecord
    \/ WorkerAck
    \/ WorkerStreamEnd

SpecWorker == WorkerInit /\ [][WorkerNext]_vars

\* the worker with a tokenizer whose encode may return an error
SpecWorkerTokenizer == WorkerTokenizerInit /\ [][WorkerNext]_vars

\* process_index_entry returned `result` for entry j of delivery i
EntryReturned(i, j, result) ==
    \E k \in 1..Len(entryLog) :
        /\ entryLog[k].delivery = i
        /\ entryLog[k].entry = j
        /\ entryLog[k].result = result

\* C3: a batch delivery is acknowledged only when process_index_entry has
\* returned Ok for every entry of the batch, and a delivery one of whose
\* entries returned an error (or panicked) is never acknowledged by the
\* worker: it stays unacknowledged at the broker and the worker has stopped.
C3_AckOnlyAfterEveryEntry ==
    /\ \A i \in 1..Len(batchesQueue) :
         batchesQueue[i].state = "acked" =>
            /\ batchesQueue[i].payload.shape = "array"
            /\ \A j \in 1..Len(batchesQueue[i].payload.items) : EntryReturned(i, j, "Ok")
    /\ \A k \in 1..Len(entryLog) :
         entryLog[k].result \in {"Err", "Panic"} =>
            /\ batchesQueue[entryLog[k].delivery].state = "unacked"
            /\ wpc \in {"failed", "panicked"}

\* one batch of two entries was acknowledged and an entry of a later batch
\* returned an error
C3_Witness ==
    /\ \E i \in 1..Len(batchesQueue) :
         /\ batchesQueue[i].state = "acked"
         /\ Len(batchesQueue[i].payload.items) >= 2
    /\ \E k \in 1..Len(entryLog) :
         /\ entryLog[k].result = "Err"
         /\ batchesQueue[entryLog[k].delivery].state = "unacked"

\* the number of store-queue messages that carry the document of `uri`
PublishedFor(uri) ==
    Cardinality({m \in 1..Len(storeQueue) :
                    storeQueue[m].payload.items[1].target_uri = uri})

\* C4: for every extracted content publish is called, once, if and only if
\* its length is in 500..1000000, and the store queue holds exactly one
\* CdxFileContext message for it when the broker took it and the call
\* returned Ok; for a length outside the range no message is published and
\* the call returns Ok; nothing else is published.
C4_PublishIffLengthInRange ==
    /\ \A k \in 1..Len(contentLog) :
         LET c == contentLog[k]
         IN  /\ (c.len >= 500 /\ c.len <= 1000000) =>
                    /\ c.publish \in {"Ok", "Err"}
                    /\ c.result = c.publish
                    /\ PublishedFor(c.uri) = IF c.publish = "Ok" THEN 1 ELSE 0
             /\ (c.len < 500 \/ c.len > 1000000) =>
                    (c.publish = "none" /\ PublishedFor(c.uri) = 0 /\ c.result = "Ok")
    /\ \A m \in 1..Len(storeQueue) :
         /\ storeQueue[m].payload.of = "CdxFileContext"
         /\ \E k \in 1..Len(contentLog) :
              /\ contentLog[k].uri = storeQueue[m].payload.items[1].target_uri
              /\ contentLog[k].len = storeQueue[m].payload.items[1].content.len

\* a content of 1000000 bytes was published and one of 499 bytes was dropped
C4_Witness ==
    /\ \E k \in 1..Len(contentLog) :
         contentLog[k].len = 1000000 /\ PublishedFor(contentLog[k].uri) = 1
    /\ \E k \in 1..Len(contentLog) :
         contentLog[k].len = 499 /\ PublishedFor(contentLog[k].uri) = 0

\* C14: a document whose content the tokenizer fails on is still published,
\* once and with an empty token sequence, and the call returns Ok.
C14_TokenizerFailurePublishesEmptyTokens ==
    \A k \in 1..Len(contentLog) :
        contentLog[k].encoded = "Err" =>
            /\ contentLog[k].result = "Ok"
            /\ PublishedFor(contentLog[k].uri) = 1
            /\ \A m \in 1..Len(storeQueue) :
                 storeQueue[m].payload.items[1].target_uri = contentLog[k].uri =>
                    storeQueue[m].payload.items[1].tokens = <<>>

\* the record is passed over: its type is not "response", it is a response
\* whose payload has no blank line, or extraction was called on it and
\* yielded no content
RecordSkipped(rec) ==
    /\ rec.parseOk
    /\ rec.warcType # "none"
    /\ \/ rec.warcType # "response"
       \/ rec.hasUri /\ ~rec.blankLine
       \/ /\ rec.hasUri
          /\ ~DebugSlicePanics(rec, debugLog)
          /\ rec.extract = "None"

\* the record is a response whose extracted content is accepted and encoded
RecordPublishable(rec) ==
    /\ rec.parseOk
    /\ rec.warcType = "response"
    /\ rec.hasUri
    /\ rec.blankLine
    /\ ~DebugSlicePanics(rec, debugLog)
    /\ rec.extract = "Some"
    /\ rec.len >= MIN_LEN /\ rec.len <= MAX_LEN
    /\ rec.tokOk
    /\ rec.pubOk

\* C18: when every record process_index_entry read is either passed over or
\* publishable, the call neither fails nor panics, and once it has returned
\* each publishable record has its one message and no record that was
\* passed over has a message: a record that is passed over costs neither an
\* error nor the records after it.
C18_SkippedRecordsAreNotErrors ==
    \A k \in 1..Len(entryLog) :
        LET recs == entryLog[k].records
        IN  (recs # <<>> /\ \A p \in 1..Len(recs) :
                               RecordSkipped(recs[p]) \/ RecordPublishable(recs[p])) =>
                /\ entryLog[k].result \in {"Ok", "pending"}
                /\ \A p \in 1..Len(recs) :
                     /\ RecordSkipped(recs[p]) => PublishedFor(recs[p].uri) = 0
                     /\ entryLog[k].result = "Ok" =>
                           PublishedFor(recs[p].uri) =
                              IF RecordPublishable(recs[p]) THEN 1 ELSE 0

\* a record that was passed over came before a published one, and the batch
\* was acknowledged
C18_Witness ==
    \E k \in 1..Len(entryLog) :
        LET recs == entryLog[k].records
        IN  /\ Len(recs) = 2
            /\ RecordSkipped(recs[1])
            /\ recs[1].warcType = "response"
            /\ PublishedFor(recs[1].uri) = 0
            /\ PublishedFor(recs[2].uri) = 1
            /\ batchesQueue[entryLog[k].delivery].state = "acked"

\* C22: a response record whose payload holds a blank line is handed to
\* extraction whatever the payload's length: when every record of a range is
\* such a record, extraction does not fail and the broker takes what is
\* published, the call neither fails nor panics, and once it has returned
\* each record has its one message if its content is accepted and none
\* otherwise; a payload shorter than 1000 bytes never stops the worker.
C22_ShortPayloadIsExtracted ==
    \A k \in 1..Len(entryLog) :
        LET recs == entryLog[k].records
        IN  (recs # <<>> /\ \A p \in 1..Len(recs) :
                               /\ recs[p].parseOk
                               /\ recs[p].warcType = "response"
                               /\ recs[p].hasUri
                               /\ recs[p].blankLine
                               /\ recs[p].extract # "Err"
                               /\ recs[p].pubOk) =>
                /\ entryLog[k].result \in {"Ok", "pending"}
                /\ wpc # "panicked"
                /\ entryLog[k].result = "Ok" =>
                      \A p \in 1..Len(recs) :
                         PublishedFor(recs[p].uri) =
                            IF recs[p].extract = "Some" /\ ContentInRange(recs[p].len)
                            THEN 1 ELSE 0

-----------------------------------------------------------------------------
(* bin/saver.rs *)

\* utility::calculate_hash: the upper-case hexadecimal SHA-256 digest of the
\* string, a value that the string determines
calculate_hash(to_be_hashed) == <<"SHA256", to_be_hashed>>

\* a variant that puts the target URI into the key
ObjectKeyWithUri(entry) ==
    <<entry.filename, "/", calculate_hash(entry.filename), entry.target_uri>>

\* format!("{}/{}", &entry.filename, file_name_hash)
ObjectKey(entry) == <<entry.filename, "/", calculate_hash(entry.filename)>>

\* put_object: the object written under a key replaces the one stored there
PutObject(store, key, body, metadata) ==
    {o \in store : o.key # key} \cup {[key |-> key, body |-> body, metadata |-> metadata]}

\* an object written without user metadata
NoMetadata == <<>>

\* the documents a store-queue message may hold: document d of shard
\* <<"warc", (d + 1) \div 2>>, so that two documents share a shard
Doc(d) ==
    [filename |-> <<"warc", (d + 1) \div 2>>,
     content |-> [doc |-> d, len |-> MIN_LEN],
     target_uri |-> d,
     tokens |-> <<"tok">>]

\* the payloads of the store queue: bytes that are not JSON, one serialized
\* CdxFileContext as the worker publishes it, and an array of them
StorePayloads(before) ==
    {Garbage, publish(<<>>, Doc(before + 1))[1].payload}
    \cup {[shape |-> "array", of |-> "CdxFileContext",
           items |-> [k \in 1..n |-> Doc(before + k)]] : n \in 0..MaxDocs}

StoreQueues ==
    {[i \in 1..Len(ps) |-> [payload |-> ps[i], state |-> "ready"]] :
        ps \in UNION {[1..n -> StorePayloads(0)] : n \in 0..MaxDeliveries}}

SaverInit ==
    /\ spc = "start"
    /\ sDelivery = 0
    /\ sEntry = 0
    /\ bucketExists \in BOOLEAN
    /\ objects = {}
    /\ putLog = <<>>
    /\ ackLog = <<>>
    /\ storeCalls = <<>>
    /\ sRecvErrors = 0
    /\ storeQueue \in StoreQueues
    /\ batchesQueue = <<>>
    /\ overflowChecks = TRUE
    /\ BatcherOff
    /\ WorkerOff
    /\ UnitOff
    /\ PoolOff

\* a variant that makes the bucket whatever the lookup answered
MakeAlways(exists) == TRUE

\* if !exists (line 79)
MakeNeeded(exists) == ~exists

\* where the start of run may fail
StartFaults == {"none", "connect", "bucket_exists", "make_bucket"}

\* the bucket calls of lines 74-81 when the bucket `exists` and the call
\* named by `fault` returns an error
BucketCalls(exists, fault) ==
    IF fault = "connect" THEN <<>>
    ELSE IF fault = "bucket_exists"
    THEN <<[op |-> "bucket_exists", ok |-> FALSE, exists |-> exists]>>
    ELSE <<[op |-> "bucket_exists", ok |-> TRUE, exists |-> exists]>>
         \o (IF MakeNeeded(exists)
             THEN <<[op |-> "make_bucket", ok |-> fault # "make_bucket", exists |-> exists]>>
             ELSE <<>>)

\* run up to the loop (lines 58-81): the connections are opened, the bucket
\* is looked up and made when it is absent; any failure ends the run
SaverStart ==
    /\ spc = "start"
    /\ \E fault \in StartFaults :
         LET calls == BucketCalls(bucketExists, fault)
         IN  /\ storeCalls' = calls
             /\ bucketExists' =
                  (bucketExists \/ \E k \in 1..Len(calls) :
                                      calls[k].op = "make_bucket" /\ calls[k].ok)
             /\ spc' = IF fault = "connect" \/ \E k \in 1..Len(calls) : ~calls[k].ok
                       THEN "failed" ELSE "consume"
    /\ UNCHANGED <<sDelivery, sEntry, objects, putLog, ackLog, sRecvErrors, queueVars,
                   overflowChecks, batcherVars, workerVars, unitVars, poolVars>>

\* consumer.next() yields a delivery (lines 83-87): the broker hands out the
\* first message it holds and the payload is deserialized into a
\* Vec<CdxFileContext>; `?` ends the run when that fails
SaverReceive ==
    /\ spc = "consume"
    /\ FirstReady(storeQueue) # 0
    /\ LET i == FirstReady(storeQueue)
           batch == ParseVec(storeQueue[i].payload, "CdxFileContext")
       IN  /\ storeQueue' = [storeQueue EXCEPT ![i].state = "unacked"]
           /\ sDelivery' = i
           /\ sEntry' = 0
           /\ spc' = IF ~batch.ok THEN "failed"
                     ELSE IF batch.items = <<>> THEN "ack"
                     ELSE "entries"
    /\ UNCHANGED <<bucketExists, objects, putLog, ackLog, storeCalls, sRecvErrors,
                   batchesQueue, overflowChecks, batcherVars, workerVars, unitVars, poolVars>>

\* consumer.next() yields an error (lines 109-112): it is logged and the loop
\* goes on to the next receive
SaverReceiveError ==
    /\ spc = "consume"
    /\ sRecvErrors < MaxRecvErrors
    /\ sRecvErrors' = sRecvErrors + 1
    /\ spc' = OnReceiveError
    /\ UNCHANGED <<sDelivery, sEntry, bucketExists, objects, putLog, ackLog,
                   storeCalls, queueVars, overflowChecks, batcherVars, workerVars,
                   unitVars, poolVars>>

\* one turn of the for loop over the documents (lines 90-105): the content of
\* the document is written under its key; `?` ends the run when the store
\* rejects the write
SaverPutObject ==
    /\ spc = "entries"
    /\ LET items == storeQueue[sDelivery].payload.items
           entry == items[sEntry + 1]
           key == ObjectKey(entry)
       IN  \E ok \in (IF bucketExists THEN BOOLEAN ELSE {FALSE}) :
             /\ putLog' = Append(putLog, [delivery |-> sDelivery, entry |-> sEntry + 1,
                                          key |-> key, ok |-> ok])
             /\ IF ok
                THEN /\ objects' = PutObject(objects, key, entry.content, NoMetadata)
                     /\ sEntry' = sEntry + 1
                     /\ spc' = IF sEntry + 1 = Len(items) THEN "ack" ELSE "entries"
                ELSE /\ spc' = "failed"
                     /\ UNCHANGED <<objects, sEntry>>
    /\ UNCHANGED <<sDelivery, bucketExists, ackLog, storeCalls, sRecvErrors, queueVars,
                   overflowChecks, batcherVars, workerVars, unitVars, poolVars>>

\* delivery.ack(BasicAckOptions::default()).await? (line 107)
SaverAck ==
    /\ spc = "ack"
    /\ \E ok \in BOOLEAN :
         /\ ackLog' = Append(ackLog, [delivery |-> sDelivery, kind |-> "ack",
                                      requeue |-> FALSE, ok |-> ok])
         /\ storeQueue' = IF ok THEN [storeQueue EXCEPT ![sDelivery].state = "acked"]
                          ELSE storeQueue
         /\ spc' = AfterAck(ok)
    /\ UNCHANGED <<sDelivery, sEntry, bucketExists, objects, putLog, storeCalls,
                   sRecvErrors, batchesQueue, overflowChecks, batcherVars, workerVars,
                   unitVars, poolVars>>

\* consumer.next() yields None (line 83): the loop ends and run returns Ok
SaverStreamEnd ==
    /\ spc = "consume"
    /\ spc' = "done"
    /\ UNCHANGED <<sDelivery, sEntry, bucketExists, objects, putLog, ackLog,
                   storeCalls, sRecvErrors, queueVars, overflowChecks, batcherVars,
                   workerVars, unitVars, poolVars>>

SaverNext ==
    \/ SaverStart
    \/ SaverReceive
    \/ SaverReceiveError
    \/ SaverPutObject
    \/ SaverAck
    \/ SaverStreamEnd

SpecSaver == SaverInit /\ [][SaverNext]_vars

\* the saver has taken delivery i and is not working on it any more
Handled(i) ==
    /\ storeQueue[i].state # "ready"
    /\ sDelivery # i \/ spc \in {"consume", "done", "failed"}

\* the acknowledgements of one kind sent for delivery i
AcksOf(i, kind) == {k \in 1..Len(ackLog) : ackLog[k].delivery = i /\ ackLog[k].kind = kind}

\* the put_object calls made for delivery i, all or by outcome
PutsOf(i) == {k \in 1..Len(putLog) : putLog[k].delivery = i}
FailedPutsOf(i) == {k \in PutsOf(i) : ~putLog[k].ok}

\* C1: a store-queue delivery whose payload cannot be deserialized is
\* negatively acknowledged without requeue once the saver has handled it,
\* and put_object is never called for it.
C1_UnparsableIsNackedWithoutRequeue ==
    \A i \in 1..Len(storeQueue) :
        (Handled(i) /\ ~ParseVec(storeQueue[i].payload, "CdxFileContext").ok) =>
            /\ PutsOf(i) = {}
            /\ Cardinality(AcksOf(i, "nack")) = 1
            /\ \A k \in AcksOf(i, "nack") : ~ackLog[k].requeue

\* C2: for every delivery the saver has handled, writes that all succeeded
\* are followed by exactly one acknowledge, a failing write is followed by
\* exactly one negative acknowledge without requeue, no delivery gets both,
\* and an acknowledge is sent only after every document's write succeeded.
C2_AckAfterWritesNackAfterFailure ==
    \A i \in 1..Len(storeQueue) :
        LET batch == ParseVec(storeQueue[i].payload, "CdxFileContext")
            written == Cardinality(PutsOf(i) \ FailedPutsOf(i))
        IN  /\ AcksOf(i, "ack") = {} \/ AcksOf(i, "nack") = {}
            /\ AcksOf(i, "ack") # {} =>
                 (batch.ok /\ written = Len(batch.items) /\ FailedPutsOf(i) = {})
            /\ (Handled(i) /\ batch.ok /\ FailedPutsOf(i) = {}) =>
                 (Cardinality(AcksOf(i, "ack")) = 1 /\ AcksOf(i, "nack") = {})
            /\ (Handled(i) /\ FailedPutsOf(i) # {}) =>
                 /\ Cardinality(AcksOf(i, "nack")) = 1
                 /\ AcksOf(i, "ack") = {}
                 /\ \A k \in AcksOf(i, "nack") : ~ackLog[k].requeue

\* C11: a store-queue delivery holding either an array of CdxFileContext or
\* one bare CdxFileContext, as the worker publishes it, is deserialized and
\* its documents are written: once the saver has handled it, put_object was
\* called for it unless the message was an empty array.
C11_BothShapesAreWritten ==
    \A i \in 1..Len(storeQueue) :
        LET payload == storeQueue[i].payload
        IN  (Handled(i) /\ payload.of = "CdxFileContext" /\ payload.items # <<>>) =>
                PutsOf(i) # {}

\* C12: no put_object is issued, and no delivery is taken, before the bucket
\* exists; make_bucket is called at most once, directly after a lookup that
\* answered that the bucket is absent.
C12_BucketEnsuredBeforeWrites ==
    /\ putLog # <<>> => bucketExists
    /\ (\E i \in 1..Len(storeQueue) : storeQueue[i].state # "ready") => bucketExists
    /\ spc \in {"consume", "entries", "ack", "done"} =>
         (storeCalls # <<>> /\ storeCalls[1].op = "bucket_exists" /\ bucketExists)
    /\ \A k \in 1..Len(storeCalls) :
         storeCalls[k].op = "make_bucket" =>
            /\ k = 2
            /\ storeCalls[1].op = "bucket_exists"
            /\ storeCalls[1].ok
            /\ ~storeCalls[1].exists

\* a saver that found no bucket made it and then wrote a document
C12_Witness ==
    /\ putLog # <<>>
    /\ putLog[1].ok
    /\ Len(storeCalls) = 2
    /\ storeCalls[2].op = "make_bucket"
    /\ storeCalls[2].ok

\* the document that put_object call k wrote
PutDoc(k) == storeQueue[putLog[k].delivery].payload.items[putLog[k].entry]

\* C19: documents of the same shard file are written under the same key,
\* whatever their target URIs and contents; the store holds one object per
\* key, and it is the content of the last document written under that key.
C19_KeyIsFunctionOfFilename ==
    /\ \A k1, k2 \in 1..Len(putLog) :
         PutDoc(k1).filename = PutDoc(k2).filename => putLog[k1].key = putLog[k2].key
    /\ \A o1, o2 \in objects : o1.key = o2.key => o1 = o2
    /\ \A k \in 1..Len(putLog) :
         (putLog[k].ok /\ \A later \in (k + 1)..Len(putLog) :
                             ~(putLog[later].ok /\ putLog[later].key = putLog[k].key)) =>
            [key |-> putLog[k].key, body |-> PutDoc(k).content,
             metadata |-> NoMetadata] \in objects

\* two documents of one shard file with different target URIs were both
\* written, and the store holds the second alone
C19_Witness ==
    /\ \E k1, k2 \in 1..Len(putLog) :
         /\ k1 < k2
         /\ putLog[k1].ok /\ putLog[k2].ok
         /\ PutDoc(k1).filename = PutDoc(k2).filename
         /\ PutDoc(k1).target_uri # PutDoc(k2).target_uri
         /\ objects = {[key |-> putLog[k2].key, body |-> PutDoc(k2).content,
                        metadata |-> NoMetadata]}

-----------------------------------------------------------------------------
(* utility.rs: upload_file_to_minio, a public function no binary calls *)

\* format!("{}/{}.json", &entry.filename, file_name_hash)
UploadKey(entry) == <<entry.filename, "/", calculate_hash(entry.filename), ".json">>

\* upload_file_to_minio (lines 15-50): the whole entry, serialized, is
\* written under the key with the target URI as user metadata; a failure
\* of put_object is returned as the error
upload_file_to_minio(store, entry, putOk) ==
    IF putOk
    THEN [kind |-> "Ok",
          store |-> PutObject(store, UploadKey(entry), [json |-> entry],
                              <<<<"x-original-url", entry.target_uri>>>>)]
    ELSE [kind |-> "Err", store |-> store]

UploadInit ==
    /\ callIn \in [fn : {"upload_file_to_minio"}, entry : {Doc(d) : d \in 1..MaxDocs},
                   putOk : BOOLEAN]
    /\ callOut = [kind |-> "pending"]
    /\ objects \in {{}} \cup {upload_file_to_minio({}, Doc(d), TRUE).store : d \in 1..MaxDocs}
    /\ bucketExists = TRUE
    /\ spc = "off"
    /\ sDelivery = 0
    /\ sEntry = 0
    /\ putLog = <<>>
    /\ ackLog = <<>>
    /\ storeCalls = <<>>
    /\ sRecvErrors = 0
    /\ overflowChecks = TRUE
    /\ BatcherOff
    /\ WorkerOff
    /\ QueuesEmpty
    /\ PoolOff

UploadFileToMinioCall ==
    /\ callIn.fn = "upload_file_to_minio"
    /\ callOut.kind = "pending"
    /\ LET r == upload_file_to_minio(objects, callIn.entry, callIn.putOk)
       IN  /\ callOut' = [kind |-> r.kind]
           /\ objects' = r.store
    /\ UNCHANGED <<callIn, spc, sDelivery, sEntry, bucketExists, putLog, ackLog, storeCalls,
                   sRecvErrors, overflowChecks, batcherVars, workerVars, queueVars,
                   poolVars>>

SpecUpload == UploadInit /\ [][UploadFileToMinioCall]_vars

-----------------------------------------------------------------------------
(* the two consuming stages, each on its own *)

StagesInit == WorkerInit \/ SaverInit

StagesNext == WorkerNext \/ SaverNext

SpecStages == StagesInit /\ [][StagesNext]_vars

\* the deliveries of a queue that were handed out and not acknowledged
Unacked(queue) == {i \in 1..Len(queue) : queue[i].state = "unacked"}

\* C15: a step in which a consumer yields an error leaves the stage at the
\* top of its loop, ready for the next receive, and changes no delivery, no
\* queue, no log of acknowledgements, and nothing published or written.
C15_ReceiveErrorContinuesLoop ==
    [][/\ wRecvErrors' # wRecvErrors =>
            /\ wpc = "consume" /\ wpc' = "consume"
            /\ UNCHANGED <<batchesQueue, storeQueue, wDelivery, wEntry, entryLog,
                           contentLog>>
       /\ sRecvErrors' # sRecvErrors =>
            /\ spc = "consume" /\ spc' = "consume"
            /\ UNCHANGED <<batchesQueue, storeQueue, sDelivery, sEntry, objects,
                           putLog, ackLog>>]_vars

\* after an error of its consumer the worker took its first delivery
C15_Witness ==
    /\ wRecvErrors = 1
    /\ wDelivery = 1
    /\ wpc = "entries"

\* C16: at most one delivery of a stage's queue is handed out and not
\* acknowledged, and none is while the stage waits for its next delivery.
C16_OneDeliveryAtATime ==
    /\ Cardinality(Unacked(batchesQueue)) <= 1
    /\ Cardinality(Unacked(storeQueue)) <= 1
    /\ wpc = "consume" => Unacked(batchesQueue) = {}
    /\ spc = "consume" => Unacked(storeQueue) = {}
    /\ wpc \in {"entries", "ack"} => Unacked(batchesQueue) = {wDelivery}
    /\ spc \in {"entries", "ack"} => Unacked(storeQueue) = {sDelivery}

\* the worker handles its second delivery after it acknowledged the first
C16_Witness ==
    /\ wpc = "entries"
    /\ wDelivery = 2
    /\ batchesQueue[1].state = "acked"
    /\ batchesQueue[2].state = "unacked"

-----------------------------------------------------------------------------
(* several workers (bin/worker.rs) on one batches queue, without failures *)

\* what the server holds for an entry, the same for whoever asks: a record
\* that is published and a second one that is published for an even entry
\* and yields no content for an odd one
PoolRecords(entry) ==
    LET id == entry.metadata.url
    IN  <<[BaseRecord EXCEPT !.uri = 2 * id - 1, !.len = MAX_LEN],
          [BaseRecord EXCEPT !.uri = 2 * id,
                             !.extract = IF id % 2 = 1 THEN "None" ELSE "Some"]>>

PoolResponse(entry) ==
    [sendOk |-> TRUE, status |-> PARTIAL_CONTENT, bodyOk |-> TRUE, gzipOk |-> TRUE,
     utf8Ok |-> TRUE, body |-> PoolRecords(entry)]

\* the batches queue at the start: every message is a batch of one to
\* BATCH_SIZE entries
PoolQueues ==
    {[i \in 1..Len(ks) |-> [payload |-> BatchPayload(i, ks[i]), state |-> "ready"]] :
        ks \in SeqsUpTo(1..BATCH_SIZE, MaxDeliveries) \ {<<>>}}

PoolInit ==
    /\ pool = [w \in 1..NumWorkers |->
                 [pc |-> "consume", delivery |-> 0, entry |-> 0, record |-> 0]]
    /\ batchesQueue \in PoolQueues
    /\ poolLog = [i \in 1..Len(batchesQueue) |->
                    [received |-> <<>>, acked |-> <<>>,
                     entries |-> [j \in 1..Len(batchesQueue[i].payload.items) |-> 0]]]
    /\ storeQueue = <<>>
    /\ overflowChecks = TRUE
    /\ BatcherOff
    /\ WorkerOff
    /\ SaverOff
    /\ UnitOff

\* instance w: consumer.next() yields a delivery (worker.rs lines 48-51)
PoolReceive(w) ==
    /\ pool[w].pc = "consume"
    /\ FirstReady(batchesQueue) # 0
    /\ LET i == FirstReady(batchesQueue)
           batch == ParseVec(batchesQueue[i].payload, "CdxEntry")
       IN  /\ batchesQueue' = [batchesQueue EXCEPT ![i].state = "unacked"]
           /\ pool' = [pool EXCEPT ![w] =
                         [pc |-> IF ~batch.ok THEN "failed"
                                 ELSE IF batch.items = <<>> THEN "ack" ELSE "entries",
                          delivery |-> i, entry |-> 0, record |-> 0]]
           /\ poolLog' = [poolLog EXCEPT ![i].received = Append(@, w)]
    /\ UNCHANGED <<storeQueue, overflowChecks, batcherVars, workerVars, saverVars,
                   unitVars>>

\* instance w: the call of process_index_entry for its next entry up to the
\* first record, with the server's answer `resp` (worker.rs lines 64, 81-82)
PoolFetch(w, resp) ==
    LET batch == batchesQueue[pool[w].delivery].payload.items
        entry == batch[pool[w].entry + 1]
        r == download_and_unzip(WarcUrl(entry), entry.metadata.offset,
                                entry.metadata.length, resp, overflowChecks)
        result == IF r.kind # "Ok" THEN r.kind
                  ELSE IF r.content = <<>> THEN "Ok" ELSE "pending"
    IN  /\ pool' = [pool EXCEPT
                      ![w].entry = IF result = "Ok" THEN @ + 1 ELSE @,
                      ![w].pc = IF result = "pending" THEN "records"
                                ELSE EntryLoop(result, Len(batch) - (pool[w].entry + 1))]
        /\ poolLog' = [poolLog EXCEPT
                         ![pool[w].delivery].entries[pool[w].entry + 1] =
                             IF result = "Ok" THEN @ + 1 ELSE @]

\* instance w requests the range of its next entry from a server in order
PoolFetchRange(w) ==
    /\ pool[w].pc = "entries"
    /\ PoolFetch(w, PoolResponse(
                       batchesQueue[pool[w].delivery].payload.items[pool[w].entry + 1]))
    /\ UNCHANGED <<queueVars, overflowChecks, batcherVars, workerVars, saverVars,
                   unitVars>>

\* instance w: one turn of the loop over the records of its range (worker.rs
\* lines 85-97), with the publish of the record's document; the log counts
\* the times the entry was processed to the end
PoolProcessRecord(w) ==
    /\ pool[w].pc = "records"
    /\ LET batch == batchesQueue[pool[w].delivery].payload.items
           entry == batch[pool[w].entry + 1]
           records == PoolRecords(entry)
           e == ProcessRecord(entry, records[pool[w].record + 1], debugLog)
           result == IF e.result # "Ok" THEN e.result
                     ELSE IF pool[w].record + 1 = Len(records) THEN "Ok" ELSE "pending"
       IN  /\ storeQueue' = PublishAll(storeQueue, e.msgs)
           /\ pool' = [pool EXCEPT
                         ![w].record = IF result = "pending" THEN @ + 1 ELSE 0,
                         ![w].entry = IF result = "Ok" THEN @ + 1 ELSE @,
                         ![w].pc = IF result = "pending" THEN "records"
                                   ELSE EntryLoop(result,
                                                  Len(batch) - (pool[w].entry + 1))]
           /\ poolLog' = [poolLog EXCEPT
                            ![pool[w].delivery].entries[pool[w].entry + 1] =
                                IF result = "Ok" THEN @ + 1 ELSE @]
    /\ UNCHANGED <<batchesQueue, overflowChecks, batcherVars, workerVars, saverVars,
                   unitVars>>

\* instance w: delivery.ack(..).await? (worker.rs line 67): an ack that
\* fails ends the run of the instance and leaves the delivery unacknowledged
PoolAck(w) ==
    /\ pool[w].pc = "ack"
    /\ \E ackOk \in BOOLEAN :
         /\ batchesQueue' = IF ackOk
                            THEN [batchesQueue EXCEPT ![pool[w].delivery].state = "acked"]
                            ELSE batchesQueue
         /\ pool' = [pool EXCEPT ![w].pc = AfterAck(ackOk)]
         /\ poolLog' = IF ackOk
                       THEN [poolLog EXCEPT ![pool[w].delivery].acked = Append(@, w)]
                       ELSE poolLog
    /\ UNCHANGED <<storeQueue, overflowChecks, batcherVars, workerVars, saverVars,
                   unitVars>>

\* instance w: consumer.next() yields None (worker.rs line 48): the while
\* loop ends and run returns Ok (line 76), whatever is left in the queue
PoolStreamEnd(w) ==
    /\ pool[w].pc = "consume"
    /\ pool' = [pool EXCEPT ![w].pc = "done"]
    /\ UNCHANGED <<poolLog, queueVars, overflowChecks, batcherVars, workerVars, saverVars,
                   unitVars>>

\* the steps in which instance w works on a delivery
PoolInstanceWork(w) ==
    PoolReceive(w) \/ PoolFetchRange(w) \/ PoolProcessRecord(w) \/ PoolAck(w)

\* the loop of instance w.  An error yielded by the consumer (lines 69-72) is
\* logged and leaves the instance at consumer.next() with nothing changed: a
\* stuttering step.
PoolInstanceNext(w) == PoolInstanceWork(w) \/ PoolStreamEnd(w)

PoolNext == \E w \in 1..NumWorkers : PoolInstanceNext(w)

\* every instance is a process of its own: while it runs, it goes on with the
\* delivery it holds, and the broker hands a ready delivery to an instance
\* that keeps waiting for one.  Nothing makes a consumer stream end or keeps
\* it from ending.
SpecPool ==
    /\ PoolInit
    /\ [][PoolNext]_vars
    /\ \A w \in 1..NumWorkers : WF_vars(PoolInstanceWork(w))

\* the messages one worker publishes for the entries, taken in order
RECURSIVE EntriesMessages(_)
EntriesMessages(entries) ==
    IF entries = <<>> THEN <<>>
    ELSE process_index_entry(Head(entries), PoolResponse(Head(entries)), overflowChecks,
                             debugLog).msgs
         \o EntriesMessages(Tail(entries))

\* the store queue a single worker leaves behind when it has handled every
\* batch of the queue in order
SingleInstanceStore(queue) ==
    PublishAll(<<>>, EntriesMessages(Flatten([i \in 1..Len(queue) |->
                                                queue[i].payload.items])))

\* two sequences hold the same elements the same number of times
SameMultiset(a, b) ==
    /\ Len(a) = Len(b)
    /\ \A i \in 1..Len(a) :
         Cardinality({k \in 1..Len(a) : a[k] = a[i]})
           = Cardinality({k \in 1..Len(b) : b[k] = a[i]})

AllAcked == \A i \in 1..Len(batchesQueue) : batchesQueue[i].state = "acked"

\* no instance has ended its run on an error
NoInstanceFailed == \A w \in 1..NumWorkers : pool[w].pc \notin {"failed", "panicked"}

\* the number of store-queue messages with this payload
Copies(payload) ==
    Cardinality({m \in 1..Len(storeQueue) : storeQueue[m].payload = payload})

\* the store-queue messages a worker publishes for an entry
MessagesOf(entry) == PublishAll(<<>>, EntriesMessages(<<entry>>))

\* the instances that are in the loop over the records of entry j of batch i
BusyOn(i, j) ==
    {w \in 1..NumWorkers :
        pool[w].pc = "records" /\ pool[w].delivery = i /\ pool[w].entry + 1 = j}

\* every message of an entry is in the store queue once for each time the
\* entry was processed to the end, and at most once more for each instance
\* that is processing it
PublishedAsProcessed ==
    \A i \in 1..Len(batchesQueue) :
       \A j \in 1..Len(batchesQueue[i].payload.items) :
          LET msgs == MessagesOf(batchesQueue[i].payload.items[j])
          IN  \A m \in 1..Len(msgs) :
                 /\ Copies(msgs[m].payload) >= poolLog[i].entries[j]
                 /\ Copies(msgs[m].payload)
                      <= poolLog[i].entries[j] + Cardinality(BusyOn(i, j))

\* what holds of a pool in every state and step: every batch is received by
\* at most one instance, each of its entries is processed at most once and
\* it is acknowledged at most once, by the instance that received it; what
\* is in the store queue is what the instances published for the entries
\* they processed, whatever the other instances did meanwhile; once every
\* batch is acknowledged the store queue holds the messages a single
\* instance would have published, each as many times; and a step changes
\* the private state of one instance alone.
PoolSafety ==
    /\ [](\A i \in 1..Len(batchesQueue) :
            /\ Len(poolLog[i].received) <= 1
            /\ Len(poolLog[i].acked) <= 1
            /\ poolLog[i].acked # <<>> => poolLog[i].acked = poolLog[i].received
            /\ \A j \in 1..Len(poolLog[i].entries) : poolLog[i].entries[j] <= 1)
    /\ []PublishedAsProcessed
    /\ [](AllAcked => SameMultiset(storeQueue, SingleInstanceStore(batchesQueue)))
    /\ [][Cardinality({w \in 1..NumWorkers : pool'[w] # pool[w]}) <= 1]_vars

\* C20 (as stated): with several instances and no failures, PoolSafety holds
\* and every batch is in the end acknowledged.
C20_EveryBatchAcknowledgedWithoutFailures ==
    /\ PoolSafety
    /\ ([]NoInstanceFailed) => <>[]AllAcked

\* C20 (amended): with several instances, PoolSafety holds, and when no
\* instance ever fails and the consumer stream of at least one instance
\* never ends, every batch is in the end acknowledged.
C20_PoolProcessesEveryBatchOnce ==
    /\ PoolSafety
    /\ \A w \in 1..NumWorkers :
         ([]NoInstanceFailed /\ [](pool[w].pc # "done")) => <>[]AllAcked

\* every batch is acknowledged, one by the first instance and one by the
\* second, and their documents are in the store queue
C20_Witness ==
    /\ AllAcked
    /\ \E i1, i2 \in 1..Len(batchesQueue) :
         poolLog[i1].acked = <<1>> /\ poolLog[i2].acked = <<2>>
    /\ storeQueue # <<>>
    /\ NoInstanceFailed
    /\ \E w \in 1..NumWorkers : pool[w].pc # "done"

-----------------------------------------------------------------------------
(* workers that fail on an entry, the broker's redelivery, and the saver *)

\* the answers to the request for an entry's range: the one in order, and
\* those of a server that cannot be reached, answers with another status or
\* sends a body that cannot be read or is not gzip
RedeliveryAnswers(entry) ==
    LET fine == PoolResponse(entry)
    IN  {fine, [fine EXCEPT !.sendOk = FALSE], [fine EXCEPT !.bodyOk = FALSE],
         [fine EXCEPT !.gzipOk = FALSE]}
        \cup {[fine EXCEPT !.status = st] : st \in HttpStatuses \ {PARTIAL_CONTENT}}

\* the store queue at the start: empty, or one array message left by another
\* producer
RedeliveryStoreQueues ==
    {q \in StoreQueues : Len(q) <= 1 /\ \A i \in 1..Len(q) : q[i].payload.shape = "array"}

RedeliveryInit ==
    /\ pool = [w \in 1..NumWorkers |->
                 [pc |-> "consume", delivery |-> 0, entry |-> 0, record |-> 0]]
    /\ batchesQueue \in PoolQueues
    /\ poolLog = [i \in 1..Len(batchesQueue) |->
                    [received |-> <<>>, acked |-> <<>>,
                     entries |-> [j \in 1..Len(batchesQueue[i].payload.items) |-> 0]]]
    /\ storeQueue \in RedeliveryStoreQueues
    /\ spc = "start"
    /\ sDelivery = 0
    /\ sEntry = 0
    /\ bucketExists \in BOOLEAN
    /\ objects = {}
    /\ putLog = <<>>
    /\ ackLog = <<>>
    /\ storeCalls = <<>>
    /\ sRecvErrors = 0
    /\ overflowChecks = TRUE
    /\ BatcherOff
    /\ WorkerOff
    /\ UnitOff

\* instance w requests the range of its next entry from a server that may
\* fail; `?` ends the run on an error
RedeliveryFetchRange(w) ==
    /\ pool[w].pc = "entries"
    /\ \E resp \in RedeliveryAnswers(
                     batchesQueue[pool[w].delivery].payload.items[pool[w].entry + 1]) :
         PoolFetch(w, resp)
    /\ UNCHANGED <<queueVars, overflowChecks, batcherVars, workerVars, saverVars,
                   unitVars>>

\* the process of instance w has ended on an error and its connection is
\* closed: the broker makes the delivery it had not acknowledged ready again
BrokerRequeue(w) ==
    /\ pool[w].pc \in {"failed", "panicked"}
    /\ batchesQueue[pool[w].delivery].state = "unacked"
    /\ batchesQueue' = [batchesQueue EXCEPT ![pool[w].delivery].state = "ready"]
    /\ pool' = [pool EXCEPT ![w].pc = "exited"]
    /\ UNCHANGED <<poolLog, storeQueue, overflowChecks, batcherVars, workerVars,
                   saverVars, unitVars>>

RedeliveryNext ==
    \/ \E w \in 1..NumWorkers :
         \/ PoolReceive(w)
         \/ RedeliveryFetchRange(w)
         \/ PoolProcessRecord(w)
         \/ PoolAck(w)
         \/ PoolStreamEnd(w)
         \/ BrokerRequeue(w)
    \/ SaverNext

SpecRedelivery == RedeliveryInit /\ [][RedeliveryNext]_vars

\* an instance has ended its run on an entry of a batch, and the payload is
\* that of a message it had published for an entry before that one
PublishedBeforeFailure(payload) ==
    \E w \in 1..NumWorkers :
       /\ pool[w].pc \in {"failed", "panicked", "exited"}
       /\ pool[w].entry < Len(batchesQueue[pool[w].delivery].payload.items)
       /\ \E j \in 1..pool[w].entry :
            LET msgs == MessagesOf(batchesQueue[pool[w].delivery].payload.items[j])
            IN  \E m \in 1..Len(msgs) : msgs[m].payload = payload

\* C21: while an instance has failed on entry k of a batch, the batch is
\* unacknowledged and the messages of the entries before k are in the store
\* queue; every message of an entry is in the store queue once for each time
\* the entry was processed to the end, so twice when the batch was
\* redelivered and the entry processed again; and a document published
\* before the failure and again after the redelivery goes on to the object
\* store: the saver that receives a copy of it writes it instead of
\* stopping on it.
C21_RedeliveryPublishesAndStoresAgain ==
    /\ \A w \in 1..NumWorkers :
         pool[w].pc \in {"failed", "panicked"} =>
            /\ batchesQueue[pool[w].delivery].state = "unacked"
            /\ \A j \in 1..pool[w].entry :
                 LET msgs == MessagesOf(batchesQueue[pool[w].delivery].payload.items[j])
                 IN  \A m \in 1..Len(msgs) : Copies(msgs[m].payload) >= 1
    /\ PublishedAsProcessed
    /\ \A m \in 1..Len(storeQueue) :
         (/\ storeQueue[m].payload.shape = "object"
          /\ Copies(storeQueue[m].payload) >= 2
          /\ PublishedBeforeFailure(storeQueue[m].payload)
          /\ storeQueue[m].state = "unacked"
          /\ sDelivery = m) =>
            (spc \in {"entries", "ack"} \/ PutsOf(m) # {})

\* a document published before a failure is in the store queue twice
DocumentPublishedTwice ==
    \E m \in 1..Len(storeQueue) :
       /\ storeQueue[m].payload.shape = "object"
       /\ Copies(storeQueue[m].payload) >= 2
       /\ PublishedBeforeFailure(storeQueue[m].payload)

\* put_object was called for a document a worker published
WorkerDocumentWritten ==
    \E m \in 1..Len(storeQueue) :
       storeQueue[m].payload.shape = "object" /\ PutsOf(m) # {}

=============================================================================
